---- MODULE Spec2Model ----
(***************************************************************************)
(* Fort Knox compile pipeline of DanielWarg/onlinedemo (apps/api).         *)
(*                                                                         *)
(* Text is modelled at character level: a text is a sequence of one-       *)
(* character atoms.  Non-ASCII characters are written as named atoms:      *)
(*   "ELL" = the ellipsis U+2026, "NL" = newline, "ao"/"ae"/"oe" = the     *)
(*   Swedish letters a-ring, a-umlaut, o-umlaut (upper case "AO","AE",     *)
(*   "OE").                                                                *)
(* Regular expressions of the source are values of a small regex algebra   *)
(* and are matched with Python's backtracking priority (leftmost start,    *)
(* first alternative, greedy repetition).                                  *)
(***************************************************************************)
EXTENDS Integers, Sequences, FiniteSets, TLC

(***************************************************************************)
(* Character classes (Python re, str patterns)                             *)
(***************************************************************************)
LowerLetters ==
  <<"a","b","c","d","e","f","g","h","i","j","k","l","m","n","o","p","q","r",
    "s","t","u","v","w","x","y","z","ao","ae","oe">>

UpperLetters ==
  <<"A","B","C","D","E","F","G","H","I","J","K","L","M","N","O","P","Q","R",
    "S","T","U","V","W","X","Y","Z","AO","AE","OE">>

Range(f) == {f[k] : k \in DOMAIN f}

Digits == {"0","1","2","3","4","5","6","7","8","9"}

Letters == Range(LowerLetters) \cup Range(UpperLetters)

\* \w
WordChars == Letters \cup Digits \cup {"_"}

\* \s
SpaceChars == {" ", "NL", "TAB", "CR"}

\* str.lower() on one character
LowerChar(c) ==
  IF c \in Range(UpperLetters)
  THEN LowerLetters[CHOOSE k \in DOMAIN UpperLetters : UpperLetters[k] = c]
  ELSE c

UpperChar(c) ==
  IF c \in Range(LowerLetters)
  THEN UpperLetters[CHOOSE k \in DOMAIN LowerLetters : LowerLetters[k] = c]
  ELSE c

\* str.lower()
Lower(s) == [k \in DOMAIN s |-> LowerChar(s[k])]

(***************************************************************************)
(* Regex algebra                                                           *)
(***************************************************************************)
Chr(S)        == [t |-> "chr", s |-> S]
NotChr(S)     == [t |-> "nchr", s |-> S]
Cat(rs)       == [t |-> "cat", rs |-> rs]
Alt(rs)       == [t |-> "alt", rs |-> rs]
\* r{lo,hi}, greedy
Rep(r, lo, hi) == [t |-> "rep", r |-> r, lo |-> lo, hi |-> hi]
\* r{lo,}, greedy
RepInf(r, lo) == [t |-> "repinf", r |-> r, lo |-> lo]
Opt(r)        == Rep(r, 0, 1)
Star(r)       == RepInf(r, 0)
Plus(r)       == RepInf(r, 1)
\* \b
WB            == [t |-> "wb"]
\* (?!r)
NLA(r)        == [t |-> "nla", r |-> r]
\* literal, case-sensitive
Lit(cs)       == Cat([k \in DOMAIN cs |-> Chr({cs[k]})])
\* literal under re.IGNORECASE
LitI(cs)      == Cat([k \in DOMAIN cs |-> Chr({LowerChar(cs[k]), UpperChar(cs[k])})])
\* (w1|w2|...) under re.IGNORECASE
AltI(words)   == Alt([k \in DOMAIN words |-> LitI(words[k])])
D             == Chr(Digits)
W             == Chr(WordChars)
S             == Chr(SpaceChars)

IsWordAt(s, k) == k >= 1 /\ k <= Len(s) /\ s[k] \in WordChars

\* \b at offset i (between s[i] and s[i+1])
IsWB(s, i) == IsWordAt(s, i) # IsWordAt(s, i + 1)

Min(a, b) == IF a < b THEN a ELSE b
Max(a, b) == IF a > b THEN a ELSE b

RECURSIVE Ends(_, _, _)
RECURSIVE EndsCat(_, _, _, _)
RECURSIVE EndsAlt(_, _, _, _)
RECURSIVE EndsRep(_, _, _, _, _)
RECURSIVE EndsEach(_, _, _, _, _, _)

\* Offsets at which a match of r starting at offset i of s can end, in the
\* order in which a backtracking matcher tries them.
Ends(r, s, i) ==
  CASE r.t = "chr"    -> IF i < Len(s) /\ s[i + 1] \in r.s THEN <<i + 1>> ELSE <<>>
    [] r.t = "nchr"   -> IF i < Len(s) /\ s[i + 1] \notin r.s THEN <<i + 1>> ELSE <<>>
    [] r.t = "wb"     -> IF IsWB(s, i) THEN <<i>> ELSE <<>>
    [] r.t = "nla"    -> IF Ends(r.r, s, i) = <<>> THEN <<i>> ELSE <<>>
    [] r.t = "cat"    -> EndsCat(r.rs, 1, s, i)
    [] r.t = "alt"    -> EndsAlt(r.rs, 1, s, i)
    [] r.t = "rep"    -> EndsRep(r.r, r.lo, r.hi, s, i)
    [] r.t = "repinf" -> EndsRep(r.r, r.lo, Len(s) + 1, s, i)

\* ends of rs[k..] from each offset in es[j..]
EndsEach(rs, k, es, j, s, rep) ==
  IF j > Len(es) THEN <<>>
  ELSE (IF rep = <<>>
        THEN EndsCat(rs, k, s, es[j])
        ELSE EndsRep(rep[1], rep[2], rep[3], s, es[j]))
       \o EndsEach(rs, k, es, j + 1, s, rep)

EndsCat(rs, k, s, i) ==
  IF k > Len(rs) THEN <<i>>
  ELSE EndsEach(rs, k + 1, Ends(rs[k], s, i), 1, s, <<>>)

EndsAlt(rs, k, s, i) ==
  IF k > Len(rs) THEN <<>>
  ELSE Ends(rs[k], s, i) \o EndsAlt(rs, k + 1, s, i)

\* length of the longest run of at most hi characters from offset i that r accepts
Run(r, hi, s, i) ==
  LET ok(k) == IF r.t = "chr" THEN s[k] \in r.s ELSE s[k] \notin r.s
      lim   == Min(hi, Len(s) - i)
      stop  == {n \in 0..lim : n = lim \/ ~ok(i + n + 1)}
  IN  CHOOSE n \in stop : \A m \in stop : n <= m

EndsRep(r, lo, hi, s, i) ==
  IF r.t \in {"chr", "nchr"}
  THEN LET run == Run(r, hi, s, i)
       IN  IF run < lo THEN <<>> ELSE [k \in 1..(run - lo + 1) |-> i + run - k + 1]
  ELSE IF hi = 0 THEN <<i>>
  ELSE LET one  == SelectSeq(Ends(r, s, i), LAMBDA e : e > i)
           more == EndsEach(<<>>, 1, one, 1, s, <<r, Max(lo - 1, 0), hi - 1>>)
       IN  more \o (IF lo = 0 THEN <<i>> ELSE <<>>)

\* the end the engine prefers among the candidate ends, or -1 when there is none
FirstEnd(es) == IF es = <<>> THEN -1 ELSE es[1]

\* re.match at offset i: the end of the match the engine returns, or -1
MatchEnd(r, s, i) == FirstEnd(Ends(r, s, i))

RECURSIVE Nullable(_)
\* r can match without consuming a character
Nullable(r) ==
  CASE r.t \in {"chr", "nchr"} -> FALSE
    [] r.t \in {"wb", "nla"}   -> TRUE
    [] r.t = "cat"             -> \A k \in DOMAIN r.rs : Nullable(r.rs[k])
    [] r.t = "alt"             -> \E k \in DOMAIN r.rs : Nullable(r.rs[k])
    [] r.t \in {"rep", "repinf"} -> r.lo = 0 \/ Nullable(r.r)

RECURSIVE CanStart(_, _)
RECURSIVE CanStartCat(_, _, _)
\* c can be the first character of a non-empty match of r
CanStart(r, c) ==
  CASE r.t = "chr"             -> c \in r.s
    [] r.t = "nchr"            -> c \notin r.s
    [] r.t \in {"wb", "nla"}   -> FALSE
    [] r.t = "cat"             -> CanStartCat(r.rs, 1, c)
    [] r.t = "alt"             -> \E k \in DOMAIN r.rs : CanStart(r.rs[k], c)
    [] r.t = "rep"             -> r.hi > 0 /\ CanStart(r.r, c)
    [] r.t = "repinf"          -> CanStart(r.r, c)

CanStartCat(rs, k, c) ==
  /\ k <= Len(rs)
  /\ \/ CanStart(rs[k], c)
     \/ Nullable(rs[k]) /\ CanStartCat(rs, k + 1, c)

RECURSIVE Needs(_)
\* character sets of which every match of r contains a member
Needs(r) ==
  CASE r.t = "chr"    -> {r.s}
    [] r.t = "cat"    -> UNION {Needs(r.rs[k]) : k \in DOMAIN r.rs}
    [] r.t \in {"rep", "repinf"} -> IF r.lo > 0 THEN Needs(r.r) ELSE {}
    [] OTHER          -> {}

\* the characters of s at which the matcher does not fail at once: none when
\* s lacks a character every match needs
Starters(r, s) ==
  IF \E cs \in Needs(r) : cs \cap Range(s) = {} THEN {}
  ELSE {c \in Range(s) : CanStart(r, c)}

\* re.search(r, s) is not None.  No pattern of the source matches the empty
\* string.
Search(r, s) ==
  LET st == Starters(r, s)
  IN  \E i \in 0..(Len(s) - 1) : s[i + 1] \in st /\ Ends(r, s, i) # <<>>

DropFirst(s, n) == SubSeq(s, n + 1, Len(s))

\* re.match(r, s[j:]) for every offset j
MatchTable(r, s) ==
  LET st == Starters(r, s)
  IN  [j \in 0..(Len(s) - 1) |-> IF s[j + 1] \in st THEN MatchEnd(r, s, j) ELSE -1]

RECURSIVE Spans(_, _, _)
\* the non-overlapping matches from offset i on, leftmost first.  No pattern
\* of the source matches the empty string.
Spans(M, n, i) ==
  LET c == {j \in i..(n - 1) : M[j] > j}
  IN  IF c = {} THEN <<>>
      ELSE LET j == CHOOSE x \in c : \A y \in c : x <= y
           IN  << <<j, M[j]>> >> \o Spans(M, n, M[j])

\* re.finditer(r, s): the spans <<start, end>> of the matches, left to right
FindIter(r, s) == Spans(MatchTable(r, s), Len(s), 0)

RECURSIVE SubSpans(_, _, _, _, _)
\* s with the k-th span replaced by repls[k]
SubSpans(s, spans, repls, k, i) ==
  IF k > Len(spans) THEN DropFirst(s, i)
  ELSE SubSeq(s, i + 1, spans[k][1]) \o repls[k] \o SubSpans(s, spans, repls, k + 1, spans[k][2])

\* re.subn(r, repl, s): text and number of substitutions
ReplaceSpans(s, spans, repl) ==
  [text |-> SubSpans(s, spans, [k \in DOMAIN spans |-> repl], 1, 0), n |-> Len(spans)]

\* (the argument s is evaluated first, as Python evaluates it: t is its value)
SubN(r, repl, s) == CHOOSE y \in {ReplaceSpans(t, FindIter(r, t), repl) : t \in {s}} : TRUE

\* re.sub(r, repl, s)
Sub(r, repl, s) == SubN(r, repl, s).text

(***************************************************************************)
(* text_processing.py                                                      *)
(***************************************************************************)
\* the replacement tokens written by the masking functions
TOK ==
  [ EMAIL |-> <<"[","E","M","A","I","L","]">>,
    PHONE |-> <<"[","P","H","O","N","E","]">>,
    REDACTED |-> <<"[","R","E","D","A","C","T","E","D","]">>,
    ID |-> <<"[","I","D","]">>,
    NUM |-> <<"[","N","U","M","]">>,
    LINK |-> <<"[","L","I","N","K","]">>,
    NAME |-> <<"[","N","A","M","E","]">>,
    PERSONNUMMER |-> <<"[","P","E","R","S","O","N","N","U","M","M","E","R","]">>,
    TOKEN |-> <<"[","T","O","K","E","N","]">>,
    DATUM |-> <<"[","D","A","T","U","M","]">>,
    TID |-> <<"[","T","I","D","]">>,
    RELATIV_TID |-> <<"[","R","E","L","A","T","I","V","_","T","I","D","]">> ]

\* [- ]
SepHS == Chr({"-", " "})
\* [\w\.-]
EmailChar == Chr(WordChars \cup {".", "-"})
\* (19|20)
Century == Alt(<<Lit(<<"1","9">>), Lit(<<"2","0">>)>>)
\* (0[1-9]|1[0-2])
Month2 == Alt(<<Cat(<<Chr({"0"}), Chr(Digits \ {"0"})>>),
                Cat(<<Chr({"1"}), Chr({"0","1","2"})>>)>>)
\* (0[1-9]|[12]\d|3[01])
Day2 == Alt(<<Cat(<<Chr({"0"}), Chr(Digits \ {"0"})>>),
              Cat(<<Chr({"1","2"}), D>>),
              Cat(<<Chr({"3"}), Chr({"0","1"})>>)>>)
\* (0?[1-9]|[12]\d|3[01])
Day12 == Alt(<<Cat(<<Opt(Chr({"0"})), Chr(Digits \ {"0"})>>),
               Cat(<<Chr({"1","2"}), D>>),
               Cat(<<Chr({"3"}), Chr({"0","1"})>>)>>)
\* (0?[1-9]|1[0-2])
Month12 == Alt(<<Cat(<<Opt(Chr({"0"})), Chr(Digits \ {"0"})>>),
                 Cat(<<Chr({"1"}), Chr({"0","1","2"})>>)>>)
\* (19|20)\d{2}
Year4 == Cat(<<Century, Rep(D, 2, 2)>>)

swedish_months_long ==
  AltI(<<<<"j","a","n","u","a","r","i">>, <<"f","e","b","r","u","a","r","i">>,
         <<"m","a","r","s">>, <<"a","p","r","i","l">>, <<"m","a","j">>, <<"j","u","n","i">>,
         <<"j","u","l","i">>, <<"a","u","g","u","s","t","i">>,
         <<"s","e","p","t","e","m","b","e","r">>, <<"o","k","t","o","b","e","r">>,
         <<"n","o","v","e","m","b","e","r">>, <<"d","e","c","e","m","b","e","r">>>>)

swedish_months_short ==
  AltI(<<<<"j","a","n">>, <<"f","e","b">>, <<"m","a","r">>, <<"a","p","r">>, <<"m","a","j">>,
         <<"j","u","n">>, <<"j","u","l">>, <<"a","u","g">>, <<"s","e","p">>, <<"s","e","p","t">>,
         <<"o","k","t">>, <<"n","o","v">>, <<"d","e","c">>>>)

\* the six date/time patterns of mask_datetime, in the order applied
datetime_patterns ==
  << [r |-> Cat(<<WB, Year4, Chr({"-","/"}), Month2, Chr({"-","/"}), Day2, WB>>),
      repl |-> TOK.DATUM],
     [r |-> Cat(<<WB, Day12, Chr({"/"}), Month12, Chr({"/"}), Year4, WB>>),
      repl |-> TOK.DATUM],
     [r |-> Cat(<<WB, Day12, Plus(S), swedish_months_long, Plus(S), Year4, WB>>),
      repl |-> TOK.DATUM],
     [r |-> Cat(<<WB, Day12, Plus(S), swedish_months_short, Opt(Chr({"."})), Plus(S),
                  Year4, WB>>),
      repl |-> TOK.DATUM],
     [r |-> Cat(<<WB, Day12, Plus(S), swedish_months_long, WB>>),
      repl |-> TOK.DATUM],
     [r |-> Cat(<<WB, Opt(Cat(<<LitI(<<"k","l">>), Opt(Chr({"."})), Plus(S)>>)),
                  Alt(<<Cat(<<Opt(Chr({"0"})), D>>), Cat(<<Chr({"1"}), D>>),
                        Cat(<<Chr({"2"}), Chr({"0","1","2","3"})>>)>>),
                  Chr({":", "."}), Chr({"0","1","2","3","4","5"}), D, WB>>),
      repl |-> TOK.TID] >>

relative_time_words ==
  Cat(<<WB,
        AltI(<<<<"i","g","ao","r">>, <<"i","d","a","g">>, <<"i","m","o","r","g","o","n">>,
               <<"i"," ","g","ao","r">>, <<"i"," ","d","a","g">>,
               <<"i"," ","m","o","r","g","o","n">>, <<"f","oe","r","r","g","ao","r">>,
               <<"oe","v","e","r","m","o","r","g","o","n">>>>),
        WB>>)

RECURSIVE SubAll(_, _, _)
\* text, count = re.subn(...); if count > 0: masked_text = text; total += count
Accumulate(ps, k, acc, o) ==
  IF o.n = 0 THEN SubAll(ps, k + 1, acc)
  ELSE SubAll(ps, k + 1, [text |-> o.text, n |-> acc.n + o.n])

\* apply the substitutions ps[k..] one after another, summing the counts
SubAll(ps, k, acc) ==
  IF k > Len(ps) THEN acc
  ELSE Accumulate(ps, k, acc, SubN(ps[k].r, ps[k].repl, acc.text))

datetime_stats(full) ==
  [text |-> full.text,
   stats |-> [datetime_masked |-> full.n > 0, datetime_mask_count |-> full.n]]

\* a masking that writes a zero time where mask_datetime writes its tokens
mask_datetime_zero_time(text, level) ==
  datetime_stats(SubAll([k \in DOMAIN datetime_patterns |->
                           [datetime_patterns[k] EXCEPT !.repl = <<"[", "0", ".", "0", "0", "]">>]],
                        1, [text |-> text, n |-> 0]))

mask_datetime(text, level) ==
  CHOOSE y \in {datetime_stats(SubAll(datetime_patterns
                                      \o (IF level = "paranoid"
                                          THEN <<[r |-> relative_time_words,
                                                  repl |-> TOK.RELATIV_TID]>>
                                          ELSE <<>>),
                                      1, [text |-> t, n |-> 0])) : t \in {text}} : TRUE

\* [line for line in text.split('\n')]
RECURSIVE SplitOn(_, _)
SplitOn(s, c) ==
  IF \A k \in DOMAIN s : s[k] # c THEN <<s>>
  ELSE LET k == CHOOSE j \in DOMAIN s : s[j] = c /\ \A m \in 1..(j - 1) : s[m] # c
       IN  <<SubSeq(s, 1, k - 1)>> \o SplitOn(DropFirst(s, k), c)

RECURSIVE Concat(_, _, _)
\* seqs[lo] \o ... \o seqs[hi], by halving
Concat(seqs, lo, hi) ==
  IF lo > hi THEN <<>>
  ELSE IF lo = hi THEN seqs[lo]
  ELSE Concat(seqs, lo, (lo + hi) \div 2) \o Concat(seqs, ((lo + hi) \div 2) + 1, hi)

\* sep.join(parts)
JoinWith(parts, sep) ==
  Concat([k \in 1..(2 * Len(parts) - 1) |-> IF k % 2 = 1 THEN parts[(k + 1) \div 2] ELSE sep],
         1, 2 * Len(parts) - 1)

RECURSIVE RStrip(_)
RStrip(s) ==
  IF s # <<>> /\ s[Len(s)] \in SpaceChars THEN RStrip(SubSeq(s, 1, Len(s) - 1))
  ELSE s

RECURSIVE LStrip(_)
LStrip(s) == IF s # <<>> /\ s[1] \in SpaceChars THEN LStrip(Tail(s)) ELSE s

Strip(s) == LStrip(RStrip(s))

\* '\n'.join(line.rstrip() for line in lines)
rstrip_lines(ls) == JoinWith([k \in DOMAIN ls |-> RStrip(ls[k])], <<"NL">>)

normalize_text(text) ==
  CHOOSE y \in {Strip(rstrip_lines(SplitOn(Sub(RepInf(Chr({"NL"}), 3), <<"NL","NL">>,
                                              Sub(Chr({"CR"}), <<"NL">>,
                                                  Sub(Lit(<<"CR","NL">>), <<"NL">>, t))),
                                          "NL"))) : t \in {text}} : TRUE

email_pattern_b == Cat(<<WB, Plus(EmailChar), Chr({"@"}), Plus(EmailChar), Chr({"."}), Plus(W), WB>>)

\* \b(19|20)\d{6}[- ]\d{4}\b|\b(19|20)\d{10}\b
personnummer_pattern ==
  Alt(<<Cat(<<WB, Century, Rep(D, 6, 6), SepHS, Rep(D, 4, 4), WB>>),
        Cat(<<WB, Century, Rep(D, 10, 10), WB>>)>>)

\* \+46\s*\d{1,2}[- ]?\d{2,3}[- ]?\d{2,3}[- ]?\d{2,4}
phone_cc == Cat(<<Lit(<<"+","4","6">>), Star(S), Rep(D, 1, 2), Opt(SepHS), Rep(D, 2, 3),
                  Opt(SepHS), Rep(D, 2, 3), Opt(SepHS), Rep(D, 2, 4)>>)
\* \b0\d{1,2}[- ]\d{2,3}[- ]?\d{2,3}[- ]?\d{2,4}\b
phone_area == Cat(<<WB, Chr({"0"}), Rep(D, 1, 2), SepHS, Rep(D, 2, 3), Opt(SepHS),
                    Rep(D, 2, 3), Opt(SepHS), Rep(D, 2, 4), WB>>)
\* \b07\d[- ]\d{2,3}[- ]?\d{2,3}[- ]?\d{2,4}\b
phone_mobile == Cat(<<WB, Lit(<<"0","7">>), D, SepHS, Rep(D, 2, 3), Opt(SepHS),
                      Rep(D, 2, 3), Opt(SepHS), Rep(D, 2, 4), WB>>)

mask_phone_patterns ==
  << [r |-> phone_cc, repl |-> TOK.PHONE],
     [r |-> phone_area, repl |-> TOK.PHONE],
     [r |-> phone_mobile, repl |-> TOK.PHONE],
     [r |-> Cat(<<Chr({"-"}), Rep(D, 4, 4), WB>>), repl |-> TOK.PHONE],
     [r |-> Cat(<<WB, Rep(D, 2, 3), SepHS, Rep(D, 2, 3), SepHS, Rep(D, 2, 4), WB>>),
      repl |-> TOK.PHONE] >>

mask_text_normal(text) ==
  SubAll(<<[r |-> email_pattern_b, repl |-> TOK.EMAIL],
           [r |-> personnummer_pattern, repl |-> TOK.REDACTED]>>
         \o mask_phone_patterns
         \o <<[r |-> Cat(<<WB, RepInf(D, 11), WB>>), repl |-> TOK.REDACTED]>>,
         1, [text |-> text, n |-> 0]).text

\* Dok\.Id\s+\d+ | ID:\s*\d+ | Id:\s*\d+ | \bID\s+\d+   (re.IGNORECASE)
id_label_patterns ==
  << Cat(<<LitI(<<"D","o","k",".","I","d">>), Plus(S), Plus(D)>>),
     Cat(<<LitI(<<"I","D",":">>), Star(S), Plus(D)>>),
     Cat(<<LitI(<<"I","d",":">>), Star(S), Plus(D)>>),
     Cat(<<WB, LitI(<<"I","D">>), Plus(S), Plus(D)>>) >>

digit_cluster_pattern ==
  Cat(<<WB,
        NLA(Cat(<<Century, Rep(D, 2, 2), SepHS, Rep(D, 2, 2), SepHS, Rep(D, 2, 2)>>)),
        NLA(Chr({"[","]","P","H","O","N","E","M","A","I","L","R","D","C","T","U"})),
        Rep(D, 1, 4), Rep(Cat(<<SepHS, Rep(D, 1, 4)>>), 1, 4), WB>>)

CountDigits(s) == Cardinality({k \in DOMAIN s : s[k] \in Digits})

\* re.sub(digit_cluster_pattern, mask_digit_cluster, text)
digit_cluster_repl(cluster) == IF CountDigits(cluster) >= 5 THEN TOK.NUM ELSE cluster

replace_digit_clusters(s, spans) ==
  SubSpans(s, spans,
           [k \in DOMAIN spans |-> digit_cluster_repl(SubSeq(s, spans[k][1] + 1, spans[k][2]))],
           1, 0)

mask_digit_cluster(s) ==
  CHOOSE y \in {replace_digit_clusters(t, FindIter(digit_cluster_pattern, t)) : t \in {s}} : TRUE

mask_text_strict(text) ==
  Sub(Cat(<<WB, RepInf(D, 5), WB>>), TOK.NUM,
      mask_digit_cluster(
        SubAll([k \in DOMAIN id_label_patterns |->
                  [r |-> id_label_patterns[k], repl |-> TOK.ID]],
               1,
               [text |-> mask_text_normal(mask_datetime(text, "strict").text),
                n |-> 0]).text))

name_labels ==
  << <<"S","oe","k","a","n","d","e">>, <<"M","o","t","p","a","r","t">>,
     <<"O","m","b","u","d">>, <<"R","AE","T","T","E","N">>,
     <<"R","ao","d","m","a","n","n","e","n">> >>

\* ^Label\s+(.+) under re.IGNORECASE, on one line
name_label_pattern(k) == Cat(<<LitI(name_labels[k]), Plus(S), Plus(NotChr({"NL"}))>>)

mask_name_line(line) ==
  IF \E k \in DOMAIN name_labels : MatchEnd(name_label_pattern(k), line, 0) >= 0
  THEN LET k == CHOOSE j \in DOMAIN name_labels :
                  /\ MatchEnd(name_label_pattern(j), line, 0) >= 0
                  /\ \A m \in 1..(j - 1) : MatchEnd(name_label_pattern(m), line, 0) < 0
           e == MatchEnd(name_label_pattern(k), line, 0)
       IN  name_labels[k] \o <<" ">> \o TOK.NAME \o DropFirst(line, e)
  ELSE line

mask_name_lines(ls) == JoinWith([k \in DOMAIN ls |-> mask_name_line(ls[k])], <<"NL">>)

mask_text_paranoid(text) ==
  mask_name_lines(
    SplitOn(Sub(D, TOK.NUM,
                Sub(Cat(<<LitI(<<"h","t","t","p">>), Opt(LitI(<<"s">>)),
                          Lit(<<":","/","/">>), Plus(NotChr(SpaceChars))>>), TOK.LINK,
                    Sub(email_pattern_b, TOK.LINK,
                        mask_datetime(text, "paranoid").text))),
            "NL"))

mask_text(text, level) ==
  CHOOSE y \in {IF level = "paranoid" THEN mask_text_paranoid(t)
                ELSE IF level = "strict" THEN mask_text_strict(t)
                ELSE mask_text_normal(t) : t \in {text}} : TRUE

allowed_tokens ==
  << TOK.PHONE, TOK.EMAIL, TOK.PERSONNUMMER, TOK.ID, TOK.REDACTED, TOK.NUM, TOK.LINK, TOK.NAME >>

gate_personnummer_patterns ==
  << Cat(<<WB, Century, Rep(D, 6, 6), SepHS, Rep(D, 4, 4), WB>>),
     Cat(<<WB, Century, Rep(D, 10, 10), WB>>),
     Cat(<<WB, Rep(D, 6, 6), SepHS, Rep(D, 4, 4), WB>>),
     Cat(<<WB, Rep(D, 10, 10), WB>>) >>

\* \b(19|20)\d{2}(0[1-9]|1[0-2])(0[1-9]|[12]\d|3[01])\b
birthdate_pattern == Cat(<<WB, Year4, Month2, Day2, WB>>)

\* \d{4}-\d{2}-\d{2}
dashed_date_pattern == Cat(<<Rep(D, 4, 4), Chr({"-"}), Rep(D, 2, 2), Chr({"-"}), Rep(D, 2, 2)>>)

\* [\w\.-]+@[\w\.-]+\.\w+
email_pattern_gate == Cat(<<Plus(EmailChar), Chr({"@"}), Plus(EmailChar), Chr({"."}), Plus(W)>>)

gate_phone_patterns == << phone_cc, phone_area, phone_mobile >>

\* size of the context window around a birthdate-like match
BIRTHDATE_CONTEXT == 20
\* least number of digits of a phone match
PHONE_MIN_DIGITS == 7

birthdate_flagged(sanitized) ==
  \E m \in Range(FindIter(birthdate_pattern, sanitized)) :
     LET context_start == Max(0, m[1] - BIRTHDATE_CONTEXT)
         context_end   == Min(Len(sanitized), m[2] + BIRTHDATE_CONTEXT)
         context       == SubSeq(sanitized, context_start + 1, context_end)
     IN  ~Search(dashed_date_pattern, context)

phone_flagged(sanitized) ==
  \E k \in DOMAIN gate_phone_patterns :
     \E m \in Range(FindIter(gate_phone_patterns[k], sanitized)) :
        LET matched_text == SubSeq(sanitized, m[1] + 1, m[2])
        IN  /\ MatchEnd(Cat(<<Century, Rep(D, 2, 2), Chr({"-"}), Rep(D, 2, 2),
                              Chr({"-"}), Rep(D, 2, 2)>>), matched_text, 0)
                 # Len(matched_text)
            /\ CountDigits(matched_text) >= PHONE_MIN_DIGITS

gate_sanitized(text) ==
  SubAll([k \in DOMAIN allowed_tokens |->
            [r |-> LitI(allowed_tokens[k]), repl |-> TOK.TOKEN]],
         1, [text |-> text, n |-> 0]).text

\* the list of reason codes, in the order the checks append them
gate_reasons(sanitized) ==
      (IF \E k \in DOMAIN gate_personnummer_patterns :
             Search(gate_personnummer_patterns[k], sanitized)
       THEN <<"personnummer_detected">> ELSE <<>>)
      \o (IF birthdate_flagged(sanitized)
          THEN <<"birthdate_like_sequence_detected">> ELSE <<>>)
      \o (IF Search(email_pattern_gate, sanitized) THEN <<"email_detected">> ELSE <<>>)
      \o (IF phone_flagged(sanitized) THEN <<"phone_detected">> ELSE <<>>)
      \o (IF \E k \in DOMAIN id_label_patterns : Search(id_label_patterns[k], sanitized)
          THEN <<"unmasked_id_detected">> ELSE <<>>)
      \o (IF Search(Cat(<<WB, RepInf(D, 9), WB>>), sanitized)
          THEN <<"long_number_detected">> ELSE <<>>)

gate_result(reasons) == [is_safe |-> Len(reasons) = 0, reasons |-> reasons]

pii_gate_check(text) ==
  CHOOSE y \in {gate_result(gate_reasons(gate_sanitized(t))) : t \in {text}} : TRUE

(***************************************************************************)
(* State                                                                   *)
(*   probe            a text handed to the masking functions and what they *)
(*                    returned                                             *)
(*   documents        rows of table documents (models.py Document)         *)
(*   project_notes    rows of table project_notes (ProjectNote)            *)
(*   project_sources  rows of table project_sources (ProjectSource)        *)
(*   project          the row of table projects                            *)
(*   knox_reports     rows of table knox_reports (KnoxReport)              *)
(*   env              the FORTKNOX_* environment of the API process        *)
(*   response         the outcome of the request handled last              *)
(*   ai_jobs          rows of table ai_jobs (AiJob)                        *)
(*   handlers         the compile requests being handled, each with the    *)
(*                    step it has reached                                  *)
(*   rate_limit_state the admission times the rate limiter keeps per key  *)
(*   now              the clock, in seconds                                *)
(***************************************************************************)
VARIABLES probe, documents, project_notes, project_sources, project,
          knox_reports, env, response, ai_jobs, handlers,
          rate_limit_state, now

vars == <<probe, documents, project_notes, project_sources, project,
          knox_reports, env, response, ai_jobs, handlers,
          rate_limit_state, now>>

Levels == <<"normal", "strict", "paranoid">>

NoProbe == [text |-> <<>>, level |-> "none", masked |-> <<>>,
            gate |-> [is_safe |-> TRUE, reasons |-> <<>>]]
NoResponse == [op |-> "none"]
\* the users of the API (the admin and the editor of Basic Auth) and
\* _rate_limit_state before any request: no key has hits
Callers == {"admin", "editor"}
NoHits == [username \in Callers |-> <<>>]
NoEnv ==
  [FORTKNOX_TESTMODE |-> "0", FORTKNOX_REMOTE_URL |-> "", FORTKNOX_ENGINE_ID |-> "",
   FORTKNOX_PIPELINE |-> "default", RATE_LIMITS |-> "0"]
NoProject == [id |-> 1, name |-> "p", tags |-> <<>>, status |-> "research"]

(***************************************************************************)
(* The masking functions on arbitrary short texts                          *)
(***************************************************************************)
MaxTextLen == 5
TextAlphabet == {"@", "b", ".", "1"}
Texts == UNION {[1..n -> TextAlphabet] : n \in 0..MaxTextLen}

InitMask ==
  /\ probe \in {[NoProbe EXCEPT !.text = t] : t \in Texts}
  /\ documents = <<>> /\ project_notes = <<>> /\ project_sources = <<>>
  /\ project = NoProject /\ knox_reports = <<>> /\ env = NoEnv
  /\ response = NoResponse
  /\ ai_jobs = <<>> /\ handlers = <<>>
  /\ rate_limit_state = NoHits /\ now = 0

\* mask_text(text, level) followed by pii_gate_check on its result
MaskAndCheck(level) ==
  /\ probe.level = "none"
  /\ \E masked \in {mask_text(probe.text, level)} :
          probe' = [probe EXCEPT !.level = level, !.masked = masked,
                                 !.gate = pii_gate_check(masked)]
  /\ UNCHANGED <<documents, project_notes, project_sources, project,
                 knox_reports, env, response, ai_jobs, handlers, rate_limit_state, now>>

NextMask == \E k \in DOMAIN Levels : MaskAndCheck(Levels[k])

SpecMask == InitMask /\ [][NextMask]_vars

\* C2: for every input text, masking at the paranoid level yields a text
\* that pii_gate_check accepts with an empty reason list.
C2_ParanoidPassesGate ==
  probe.level = "paranoid" => probe.gate = [is_safe |-> TRUE, reasons |-> <<>>]

(***************************************************************************)
(* Ingestion handlers (main.py)                                            *)
(***************************************************************************)
UR_ALLOWED == [ai_allowed |-> TRUE, export_allowed |-> TRUE]
UR_DENIED  == [ai_allowed |-> FALSE, export_allowed |-> FALSE]
\* Python None / {} of a JSON column
None == <<>>
\* an Optional value: <<>> is None, <<v>> is a present v
Some(v) == <<v>>

\* the progressive pipeline every handler repeats inline: normal masking,
\* else strict masking, else paranoid masking
try_strict(normalized_text, masked_text) ==
  IF pii_gate_check(masked_text).is_safe
  THEN [masked_text |-> masked_text, sanitize_level |-> "strict"]
  ELSE [masked_text |-> mask_text(normalized_text, "paranoid"), sanitize_level |-> "paranoid"]

try_normal(normalized_text, masked_text) ==
  IF pii_gate_check(masked_text).is_safe
  THEN [masked_text |-> masked_text, sanitize_level |-> "normal"]
  ELSE try_strict(normalized_text, mask_text(normalized_text, "strict"))

ProgressiveSanitize(normalized_text) ==
  try_normal(normalized_text, mask_text(normalized_text, "normal"))

\* the document row db.add() stores for a pipeline result; created_at is
\* the tick of the insert, which grows with the id. file_text is the text of
\* the file at file_path; ingested is not a column: it keeps the text the
\* last ingestion handler that wrote the row has sanitized
DocumentRow(id, r) ==
  [id |-> id, masked_text |-> r.masked_text,
   sanitize_level |-> r.sanitize_level,
   usage_restrictions |-> IF r.sanitize_level = "paranoid" THEN UR_DENIED ELSE UR_ALLOWED,
   document_metadata |-> None, created_at |-> id, file_text |-> <<>>, ingested |-> None]

NewDocument(r) == DocumentRow(Len(documents) + 1, r)

\* the note row create_note stores (usage_restrictions is left unset)
NoteRow(id, r) ==
  [id |-> id, masked_body |-> r.masked_text,
   sanitize_level |-> r.sanitize_level, usage_restrictions |-> None,
   created_at |-> id, ingested |-> None]

NewNote(r) == NoteRow(Len(project_notes) + 1, r)

MaxDocuments == 1
MaxNotes == 1

\* POST /api/projects/{id}/documents; POST /api/projects/{id}/recordings runs
\* the same steps on the processed transcript
StoreDocument(op, text) ==
  /\ Len(documents) < MaxDocuments
  /\ \E r \in {ProgressiveSanitize(normalize_text(text))} :
          IF r.sanitize_level = "paranoid" /\ ~pii_gate_check(r.masked_text).is_safe
          THEN /\ response' = [op |-> op, status |-> 500]
               /\ UNCHANGED documents
          ELSE /\ documents' = Append(documents, [NewDocument(r) EXCEPT !.file_text = text,
                                                                     !.ingested = Some(text)])
               /\ response' = [op |-> op, status |-> 201]
  /\ UNCHANGED <<probe, project_notes, project_sources, project, knox_reports, env, ai_jobs, handlers,
                 rate_limit_state, now>>

upload_document(raw_text) == StoreDocument("upload_document", raw_text)

upload_recording(processed_text) == StoreDocument("upload_recording", processed_text)

\* PUT /api/documents/{document_id}: usage_restrictions is bound only in the
\* strict branch, so the other branches end in an unhandled NameError before
\* the commit
update_document(document_id, masked_text) ==
  /\ document_id \in DOMAIN documents
  /\ \E r \in {ProgressiveSanitize(normalize_text(masked_text))} :
          IF r.sanitize_level = "strict"
          THEN /\ documents' = [documents EXCEPT ![document_id] =
                    [@ EXCEPT !.masked_text =
                                 mask_datetime(mask_datetime(r.masked_text, "strict").text,
                                               "strict").text,
                              !.sanitize_level = "strict",
                              !.usage_restrictions = UR_ALLOWED,
                              !.ingested = Some(masked_text)]]
               /\ response' = [op |-> "update_document", status |-> 200]
          ELSE /\ response' = [op |-> "update_document", status |-> 500]
               /\ UNCHANGED documents
  /\ UNCHANGED <<probe, project_notes, project_sources, project, knox_reports, env, ai_jobs, handlers,
                 rate_limit_state, now>>

\* POST /api/projects/{id}/notes
create_note(body) ==
  /\ Len(project_notes) < MaxNotes
  /\ project_notes' =
       Append(project_notes, [NewNote(ProgressiveSanitize(normalize_text(body)))
                                EXCEPT !.ingested = Some(body)])
  /\ response' = [op |-> "create_note", status |-> 201]
  /\ UNCHANGED <<probe, documents, project_sources, project, knox_reports, env, ai_jobs, handlers,
                 rate_limit_state, now>>

\* PUT /api/projects/{id}/notes/{note_id}
update_project_note(note_id, body) ==
  /\ note_id \in DOMAIN project_notes
  /\ \E r \in {ProgressiveSanitize(normalize_text(body))} :
          project_notes' = [project_notes EXCEPT ![note_id] =
            [@ EXCEPT !.masked_body = r.masked_text, !.sanitize_level = r.sanitize_level,
                      !.usage_restrictions =
                         IF r.sanitize_level = "paranoid" THEN UR_DENIED ELSE UR_ALLOWED,
                      !.ingested = Some(body)]]
  /\ response' = [op |-> "update_project_note", status |-> 200]
  /\ UNCHANGED <<probe, documents, project_sources, project, knox_reports, env, ai_jobs, handlers,
                 rate_limit_state, now>>

\* texts sent to the ingestion handlers: plain text, a long number (strict),
\* an address with a digit domain (paranoid), an address no level masks, and
\* a long number next to a date
RawTexts ==
  { <<"a", "b">>,
    <<"1","2","3","4","5","6","7","8","9">>,
    <<"-", "@", "1", ".", "c">>,
    <<"-", "@", "b", ".", "c">>,
    <<"1","2","3","4","5","6","7","8","9"," ","2","0","2","5","-","0","1","-","1","5">> }

InitIngest ==
  /\ probe = NoProbe
  /\ documents = <<>> /\ project_notes = <<>> /\ project_sources = <<>>
  /\ project = NoProject /\ knox_reports = <<>> /\ env = NoEnv
  /\ response = NoResponse
  /\ ai_jobs = <<>> /\ handlers = <<>>
  /\ rate_limit_state = NoHits /\ now = 0

NextIngest ==
  \/ \E t \in RawTexts : upload_document(t)
  \/ \E t \in RawTexts : upload_recording(t)
  \/ \E d \in 1..MaxDocuments, t \in RawTexts : update_document(d, t)
  \/ \E t \in RawTexts : create_note(t)
  \/ \E n \in 1..MaxNotes, t \in RawTexts : update_project_note(n, t)

SpecIngest == InitIngest /\ [][NextIngest]_vars

\* C3: after any sequence of ingestion operations every stored document
\* masked_text and every stored note masked_body passes pii_gate_check.
C3_StoredTextPassesGate ==
  /\ \A d \in DOMAIN documents : pii_gate_check(documents[d].masked_text).is_safe
  /\ \A n \in DOMAIN project_notes : pii_gate_check(project_notes[n].masked_body).is_safe

(***************************************************************************)
(* fortknox.py: policies, hashing and the input pack                       *)
(***************************************************************************)
\* a Python str literal as a text: one atom per character
Str(s) == [i \in 1..Len(s) |-> SubSeq(s, i, i)]

RECURSIVE Decimal(_)
\* str(n) of a non-negative int
Decimal(n) ==
  IF n < 10 THEN <<SubSeq("0123456789", n + 1, n + 1)>>
  ELSE Decimal(n \div 10) \o <<SubSeq("0123456789", (n % 10) + 1, (n % 10) + 1)>>

policies ==
  [internal |-> [policy_id |-> "internal", policy_version |-> "1.0",
                 ruleset_hash |-> "internal_v1", mode |-> "internal",
                 sanitize_min_level |-> "normal", quote_limit_words |-> 8,
                 date_strictness |-> "relaxed", max_bytes |-> 800000],
   external |-> [policy_id |-> "external", policy_version |-> "1.0",
                 ruleset_hash |-> "external_v1", mode |-> "external",
                 sanitize_min_level |-> "strict", quote_limit_words |-> 8,
                 date_strictness |-> "strict", max_bytes |-> 300000]]

get_policy(policy_id) == policies[policy_id]

\* hashlib.sha256(...).hexdigest(), idealised as collision free: the digest
\* of x is the tagged value itself
compute_sha256(x) == <<"sha256", x>>

\* one manifest entry under json.dumps(sort_keys=True, separators=(',', ':')):
\* the (key, value) pairs in sorted key order
canonical_entry(m) ==
  IF m.kind = "source"
  THEN << <<"id", m.id>>, <<"kind", m.kind>>, <<"updated_at", m.updated_at>>,
          <<"url_hash", m.url_hash>> >>
  ELSE << <<"id", m.id>>, <<"kind", m.kind>>, <<"sanitize_level", m.sanitize_level>>,
          <<"sha256", m.sha256>>, <<"updated_at", m.updated_at>> >>

\* a list is serialised in list order
canonical_json(data) == [k \in DOMAIN data |-> canonical_entry(data[k])]

\* usage_restrictions and usage_restrictions.get("fortknox_excluded", False)
fortknox_excluded(usage_restrictions) ==
  /\ "fortknox_excluded" \in DOMAIN usage_restrictions
  /\ usage_restrictions.fortknox_excluded

\* (document_metadata or {}).get("source_type") == "fortknox_report"
is_fortknox_report(document_metadata) ==
  /\ "source_type" \in DOMAIN document_metadata
  /\ document_metadata.source_type = "fortknox_report"

\* the order of the source type enum in ORDER BY type
source_type_order == <<"link", "person", "document", "other">>

type_rank(type) == CHOOSE k \in DOMAIN source_type_order : source_type_order[k] = type

\* ORDER BY type ASC, id ASC
source_before(a, b) ==
  \/ type_rank(a.type) < type_rank(b.type)
  \/ type_rank(a.type) = type_rank(b.type) /\ a.id < b.id

\* documents and notes are stored in id order with created_at growing with
\* the id, which is ORDER BY created_at ASC, id ASC
pack_documents(db) ==
  SelectSeq(db.documents, LAMBDA doc : ~(\/ fortknox_excluded(doc.usage_restrictions)
                                      \/ is_fortknox_report(doc.document_metadata)))

\* a pack that takes every note
pack_notes_all(db) == db.project_notes

pack_notes(db) == SelectSeq(db.project_notes, LAMBDA note : ~fortknox_excluded(note.usage_restrictions))

pack_sources(db) == SortSeq(db.project_sources, source_before)

KnoxDocumentItem(doc) ==
  [doc_id |-> doc.id, sha256 |-> compute_sha256(doc.masked_text),
   sanitize_level |-> doc.sanitize_level, updated_at |-> doc.created_at,
   masked_text |-> doc.masked_text]

KnoxNoteItem(note) ==
  [note_id |-> note.id, sha256 |-> compute_sha256(note.masked_body),
   sanitize_level |-> note.sanitize_level, updated_at |-> note.created_at,
   masked_body |-> note.masked_body]

KnoxSourceItem(source) == [source_id |-> source.id, type |-> source.type, title |-> source.title]

document_manifest_entry(d) ==
  [kind |-> "document", id |-> d.doc_id, sha256 |-> d.sha256,
   sanitize_level |-> d.sanitize_level, updated_at |-> d.updated_at]

note_manifest_entry(n) ==
  [kind |-> "note", id |-> n.note_id, sha256 |-> n.sha256,
   sanitize_level |-> n.sanitize_level, updated_at |-> n.updated_at]

source_manifest_entry(source) ==
  [kind |-> "source", id |-> source.id,
   url_hash |-> IF source.url # <<>> THEN compute_sha256(source.url) ELSE None,
   updated_at |-> source.created_at]

MapSeq(s, F(_)) == [k \in DOMAIN s |-> F(s[k])]

pack_manifest(db) ==
  MapSeq(MapSeq(pack_documents(db), KnoxDocumentItem), document_manifest_entry)
  \o MapSeq(MapSeq(pack_notes(db), KnoxNoteItem), note_manifest_entry)
  \o MapSeq(pack_sources(db), source_manifest_entry)

\* db holds the rows of the one project the model keeps
build_knox_input_pack(project_id, policy, template_id, db) ==
  [project |-> [id |-> db.project.id, name |-> db.project.name, tags |-> db.project.tags,
                status |-> db.project.status],
   documents |-> MapSeq(pack_documents(db), KnoxDocumentItem),
   notes |-> MapSeq(pack_notes(db), KnoxNoteItem),
   sources |-> MapSeq(pack_sources(db), KnoxSourceItem),
   policy |-> policy,
   template_id |-> template_id,
   input_manifest |-> pack_manifest(db),
   input_fingerprint |-> compute_sha256(canonical_json(pack_manifest(db)))]

\* the session's view of the tables
get_db ==
  [project |-> project, documents |-> documents, project_notes |-> project_notes,
   project_sources |-> project_sources]

\* the characters a "~x" pair stands for in the literals below
SvEscape == [a |-> "ae", o |-> "oe", r |-> "ao", A |-> "AE", O |-> "OE", R |-> "AO",
             n |-> "NL", e |-> "ELL"]

\* the character written at position i of the literal; "" for the second
\* half of a "~x" pair
SvChar(c, i) ==
  IF c[i] = "~" THEN SvEscape[c[i + 1]]
  ELSE IF i > 1 /\ c[i - 1] = "~" THEN ""
  ELSE c[i]

SvDecode(c) == SelectSeq([i \in DOMAIN c |-> SvChar(c, i)], LAMBDA x : x # "")

\* a Python str literal with Swedish letters, written with "~a" for a-umlaut,
\* "~o" for o-umlaut, "~r" for a-ring (capitals likewise), "~n" for a newline
\* and "~e" for the ellipsis character
Sv(s) == SvDecode(Str(s))

Flatten(seqs) == Concat(seqs, 1, Len(seqs))

\* s[:k]
Take(s, k) == SubSeq(s, 1, Min(k, Len(s)))

\* sub in text, on Python strings
Contains(sub, text) ==
  \E i \in 0..(Len(text) - Len(sub)) : SubSeq(text, i + 1, i + Len(sub)) = sub

\* the 1-based positions at which a run of whitespace or of non-whitespace
\* characters starts
run_starts(s) ==
  SelectSeq([i \in DOMAIN s |-> i],
            LAMBDA i : i = 1 \/ (s[i] \in SpaceChars) # (s[i - 1] \in SpaceChars))

runs_from(s, starts) ==
  [k \in DOMAIN starts |->
     SubSeq(s, starts[k], IF k < Len(starts) THEN starts[k + 1] - 1 ELSE Len(s))]

\* [m.group(0) for m in re.finditer(r"\s+|\S+", text)]: the maximal runs
segments(text) == runs_from(text, run_starts(text))

\* str.isspace()
isspace(s) == s # <<>> /\ \A k \in DOMAIN s : s[k] \in SpaceChars

\* str.split(): the maximal runs of non-whitespace characters
SplitWords(s) == SelectSeq(segments(s), LAMBDA seg : ~isspace(seg))

\* text.lower(), re.sub(r'\s+', ' ', text), strip(): the words of the lowered
\* text with one space between them
normalize_text_for_n_gram(text) == JoinWith(SplitWords(Lower(text)), <<" ">>)

n_grams_of(words, n) ==
  IF Len(words) < n THEN <<>>
  ELSE [i \in 1..(Len(words) - n + 1) |-> JoinWith(SubSeq(words, i, i + n - 1), <<" ">>)]

create_n_grams(text, n) == n_grams_of(SplitWords(text), n)

\* the set all_input_n_grams both re_id_guard and break_quote_ngrams build
all_input_n_grams(input_texts, n) ==
  UNION {Range(create_n_grams(normalize_text_for_n_gram(input_texts[k]), n)) :
           k \in DOMAIN input_texts}

\* a guard that reports a run only where it stands between word boundaries
quote_reasons_aligned(normalized_output, n_grams) ==
  IF \E n_gram \in n_grams :
       Contains(<<" ">> \o n_gram \o <<" ">>, <<" ">> \o normalized_output \o <<" ">>)
  THEN <<"quote_detected">> ELSE <<>>

quote_reasons(normalized_output, n_grams) ==
  IF \E n_gram \in n_grams : Contains(n_gram, normalized_output)
  THEN <<"quote_detected">> ELSE <<>>

guard_result(reasons) == [pass |-> Len(reasons) = 0, reasons |-> reasons]

re_id_guard(rendered_text, input_texts, policy) ==
  guard_result(quote_reasons(normalize_text_for_n_gram(rendered_text),
                             all_input_n_grams(input_texts, policy.quote_limit_words + 1)))

\* _rebuild_word_index(): the (1-based) segment indexes of the words
word_seg_idxs(segs) == SelectSeq([k \in DOMAIN segs |-> k], LAMBDA k : ~isspace(segs[k]))

word_tokens_at(segs, idxs) == [j \in DOMAIN idxs |-> Lower(segs[idxs[j]])]

\* the 0-based word positions at which an input n-gram starts
found_positions(tokens, n_grams, n) ==
  {i \in 0..(Len(tokens) - n) : JoinWith(SubSeq(tokens, i + 1, i + n), <<" ">>) \in n_grams}

\* a marker written over the segment before the place
insert_marker_over(segs, insert_seg_at) ==
  SubSeq(segs, 1, insert_seg_at - 1) \o << <<" ">>, <<"ELL">>, <<" ">> >>
  \o DropFirst(segs, insert_seg_at)

\* segs[insert_seg_at:insert_seg_at] = [" ", "...", " "], insert_seg_at 0-based
insert_marker(segs, insert_seg_at) ==
  SubSeq(segs, 1, insert_seg_at) \o << <<" ">>, <<"ELL">>, <<" ">> >>
  \o DropFirst(segs, insert_seg_at)

\* insert_seg_at for the word position insert_word_pos (both 0-based)
marker_position(segs, idxs, insert_word_pos) ==
  IF insert_word_pos >= Len(idxs) THEN Len(segs) ELSE idxs[insert_word_pos + 1] - 1

least(set) == CHOOSE x \in set : \A y \in set : x <= y

RECURSIVE break_loop(_, _, _, _, _)
\* one pass of the for loop of break_quote_ngrams
break_pass(segs, n_grams, n, left, breaks, idxs, found) ==
  IF Len(idxs) < n \/ found = {} THEN [segs |-> segs, breaks |-> breaks]
  ELSE break_loop(insert_marker(segs,
                                marker_position(segs, idxs,
                                                Min(least(found) + Max(3, n \div 2),
                                                    Len(idxs)))),
                  n_grams, n, left - 1, breaks + 1)

break_loop(segs, n_grams, n, left, breaks) ==
  IF left = 0 THEN [segs |-> segs, breaks |-> breaks]
  ELSE break_pass(segs, n_grams, n, left, breaks, word_seg_idxs(segs),
                  found_positions(word_tokens_at(segs, word_seg_idxs(segs)), n_grams, n))

joined_segments(r) == [text |-> Flatten(r.segs), breaks |-> r.breaks]

break_quote_ngrams(rendered_text, input_texts, policy, max_breaks) ==
  IF rendered_text = <<>> \/ input_texts = <<>> \/ policy.quote_limit_words = 0
  THEN [text |-> rendered_text, breaks |-> 0]
  ELSE joined_segments(
         break_loop(segments(rendered_text),
                    all_input_n_grams(input_texts, policy.quote_limit_words + 1),
                    policy.quote_limit_words + 1, max_breaks, 0))

bullet_lines(items) == [k \in DOMAIN items |-> Str("- ") \o items[k]]

theme_lines(theme) == <<Str("### ") \o theme.name>> \o bullet_lines(theme.bullets) \o << <<>> >>

risk_lines(risk) ==
  <<Str("### ") \o risk.risk, Sv("~Rtg~ard: ") \o risk.mitigation, <<>> >>

\* a section of render_markdown: nothing when the field is empty
section(present, lines) == IF present THEN lines ELSE <<>>

render_markdown(llm_json, template_id) ==
  JoinWith(
    <<Str("# ") \o llm_json.title, <<>> >>
    \o section(llm_json.executive_summary # <<>>,
               <<Str("## Sammanfattning"), <<>>, llm_json.executive_summary, <<>> >>)
    \o section(llm_json.themes # <<>>,
               <<Str("## Teman"), <<>> >>
               \o Flatten([k \in DOMAIN llm_json.themes |-> theme_lines(llm_json.themes[k])]))
    \o section(llm_json.timeline_high_level # <<>>,
               <<Str("## Tidslinje"), <<>> >>
               \o bullet_lines(llm_json.timeline_high_level) \o << <<>> >>)
    \o section(llm_json.risks # <<>>,
               <<Sv("## Risker och ~rtg~arder"), <<>> >>
               \o Flatten([k \in DOMAIN llm_json.risks |-> risk_lines(llm_json.risks[k])]))
    \o section(llm_json.open_questions # <<>>,
               <<Sv("## ~Oppna fr~rgor"), <<>> >>
               \o bullet_lines(llm_json.open_questions) \o << <<>> >>)
    \o section(llm_json.next_steps # <<>>,
               <<Sv("## N~asta steg"), <<>> >>
               \o bullet_lines(llm_json.next_steps) \o << <<>> >>)
    \o section(llm_json.confidence # <<>>,
               <<Sv("*F~ortroende: ") \o llm_json.confidence \o Str("*"), <<>> >>),
    <<"NL">>)

\* pack.input_fingerprint[:16]; the digest is opaque here, its first 16 hex
\* characters are one fixed string
fingerprint_prefix(input_fingerprint) == Str("a1b2c3d4e5f6a7b8")

\* lines, or the fallback line when there are none
lines_or(lines, fallback) == IF lines # <<>> THEN lines ELSE <<fallback>>

listed_entries(manifest) == SelectSeq(manifest, LAMBDA m : m.kind \in {"document", "note"})

manifest_line(m) ==
  Str("- [") \o (IF m.kind = "document" THEN Str("Dokument") ELSE Str("Anteckning"))
  \o Str("] ") \o Decimal(m.id) \o Str(" (sanitize: ") \o Str(m.sanitize_level) \o Str(")")

\* section 4: at most ten entries, then the number of entries left out
manifest_lines(entries) ==
  [k \in 1..Min(Len(entries), 10) |-> manifest_line(entries[k])]
  \o (IF Len(entries) > 10 THEN <<Str("(+") \o Decimal(Len(entries) - 10) \o Str(" fler)")>>
      ELSE <<>>)

all_bullets(themes) == Flatten([k \in DOMAIN themes |-> themes[k].bullets])

\* step 7 of the compile endpoints: the report text built from the answer
final_rendered_markdown(llm_json, policy, pack) ==
  JoinWith(
    <<Str("# ") \o Strip(IF llm_json.title # <<>> THEN llm_json.title ELSE Str("Rapport")),
      <<>>,
      Sv("## Sammanst~allning"), <<>>,
      IF llm_json.executive_summary # <<>> THEN llm_json.executive_summary
      ELSE Sv("Sammanst~allningen bygger p~r valt underlag. Inga personuppgifter eller r~rtexter exponeras i denna rapport."),
      <<>>,
      Str("## 1. Vad vi vet just nu"), <<>> >>
    \o lines_or(bullet_lines(Take(all_bullets(llm_json.themes), 7)),
                Sv("- Inga tydliga observationer kunde extraheras fr~rn underlaget."))
    \o << <<>>, Sv("## 2. Det h~ar beh~over vi verifiera"), <<>> >>
    \o lines_or(bullet_lines(Take(llm_json.open_questions, 7)),
                Str("- Inga specifika verifieringspunkter identifierades."))
    \o << <<>>, Str("## 3. Tidslinje"), <<>> >>
    \o lines_or(bullet_lines(llm_json.timeline_high_level),
                Str("Ingen tydlig tidslinje i valt material"))
    \o << <<>>, Str("## 4. Underlag som ingick (utan PII)"), <<>> >>
    \o manifest_lines(listed_entries(pack.input_manifest))
    \o << <<>>, Str("## 5. Risker och integritet"), <<>>,
          Sv("Inga tecken p~r PII i output och re-ID guard passerade utan varningar."),
          <<>>,
          Sv("## 6. Rekommenderade n~asta steg"), <<>> >>
    \o lines_or(bullet_lines(Take(llm_json.next_steps, 7)),
                Sv("- Inga explicita n~asta steg identifierade."))
    \o << <<>>, Str("## Bilaga: Audit"), <<>>,
          Str("Policy: ") \o Str(policy.policy_id) \o Str(" v") \o Str(policy.policy_version),
          Str("Ruleset: ") \o Str(policy.ruleset_hash),
          Sv("Ing~rngsfingerprint: ") \o fingerprint_prefix(pack.input_fingerprint)
            \o Str("..."),
          <<>> >>,
    <<"NL">>)

\* ------------------------------------------------------------------
\* Fort Knox compile (main.py compile_fortknox_report and
\* compile_fortknox_report_langchain): selection, input gate, idempotency
\* lookup, external compiler, output gates

\* request.selection, or the empty include/exclude lists of snapshot_mode
\* without a selection
selection_of(request) ==
  IF request.selection = None THEN [include |-> <<>>, exclude |-> <<>>]
  ELSE request.selection[1]

selection_ids(items, type) ==
  {items[k].id : k \in {j \in DOMAIN items : items[j].type = type}}

\* the include list restricted to the pack if there is one, else the whole
\* pack; minus the exclude list
final_ids(include, exclude, current) ==
  (IF include # {} THEN include \cap current ELSE current) \ exclude

new_documents(pack, selection) ==
  SelectSeq(pack.documents,
            LAMBDA d : d.doc_id \in final_ids(selection_ids(selection.include, "document"),
                                              selection_ids(selection.exclude, "document"),
                                              {pack.documents[k].doc_id : k \in DOMAIN pack.documents}))

new_notes(pack, selection) ==
  SelectSeq(pack.notes,
            LAMBDA n : n.note_id \in final_ids(selection_ids(selection.include, "note"),
                                               selection_ids(selection.exclude, "note"),
                                               {pack.notes[k].note_id : k \in DOMAIN pack.notes}))

\* the kinds in string order
manifest_kinds == <<"document", "note", "source">>

kind_rank(kind) == CHOOSE k \in DOMAIN manifest_kinds : manifest_kinds[k] = kind

\* sorted(new_manifest, key=lambda x: (x.get("kind",""), x.get("id", 0)))
manifest_before(a, b) ==
  \/ kind_rank(a.kind) < kind_rank(b.kind)
  \/ kind_rank(a.kind) = kind_rank(b.kind) /\ a.id < b.id

new_manifest(documents_kept, notes_kept, pack) ==
  SortSeq(MapSeq(documents_kept, document_manifest_entry)
          \o MapSeq(notes_kept, note_manifest_entry)
          \o SelectSeq(pack.input_manifest, LAMBDA m : m.kind = "source"),
          manifest_before)

\* a selection that keeps the fingerprint of the unfiltered pack
stale_fingerprint(manifest, pack) == pack.input_fingerprint

\* the re-fingerprint of the filtered manifest
new_fingerprint(manifest, pack) == compute_sha256(canonical_json(manifest))

selected_pack(pack, documents_kept, notes_kept, manifest) ==
  [pack EXCEPT !.documents = documents_kept, !.notes = notes_kept,
               !.input_manifest = manifest,
               !.input_fingerprint = new_fingerprint(manifest, pack)]

selection_result(pack, documents_kept, notes_kept) ==
  IF Len(documents_kept) + Len(notes_kept) = 0
  THEN [empty |-> TRUE, pack |-> pack]
  ELSE [empty |-> FALSE,
        pack |-> selected_pack(pack, documents_kept, notes_kept,
                               new_manifest(documents_kept, notes_kept, pack))]

\* step 1.2 of the handlers; empty is the EMPTY_INPUT_SET exit of the
\* selection branch
apply_selection(pack, request) ==
  IF request.snapshot_mode \/ request.selection # None
  THEN selection_result(pack, new_documents(pack, selection_of(request)),
                        new_notes(pack, selection_of(request)))
  ELSE [empty |-> FALSE, pack |-> pack]

total_inputs(pack) == Len(pack.documents) + Len(pack.notes) + Len(pack.sources)

min_level_order == [normal |-> 0, strict |-> 1, paranoid |-> 2]

document_level_reasons(pack, required_level) ==
  MapSeq(SelectSeq(pack.documents,
                   LAMBDA d : min_level_order[d.sanitize_level] < required_level),
         LAMBDA d : Str("document_") \o Decimal(d.doc_id) \o Str("_sanitize_level_too_low"))

note_level_reasons(pack, required_level) ==
  MapSeq(SelectSeq(pack.notes,
                   LAMBDA n : min_level_order[n.sanitize_level] < required_level),
         LAMBDA n : Str("note_") \o Decimal(n.note_id) \o Str("_sanitize_level_too_low"))

\* [doc.masked_text for doc in pack.documents] + [note.masked_body for note in pack.notes]
input_texts_of(pack) ==
  MapSeq(pack.documents, LAMBDA d : d.masked_text)
  \o MapSeq(pack.notes, LAMBDA n : n.masked_body)

\* [f"pii_gate_{reason}" for reason in pii_reasons] of a failed check
pii_gate_reasons(check) ==
  IF check.is_safe THEN <<>>
  ELSE MapSeq(check.reasons, LAMBDA reason : Str("pii_gate_") \o Str(reason))

\* bytes of one character in UTF-8
utf8_bytes(c) ==
  IF c = "ELL" THEN 3 ELSE IF c \in {"ao", "ae", "oe", "AO", "AE", "OE"} THEN 2 ELSE 1

utf8_len(text) ==
  Len(text) + Len(SelectSeq(text, LAMBDA c : utf8_bytes(c) >= 2))
            + Len(SelectSeq(text, LAMBDA c : utf8_bytes(c) >= 3))

\* len(canonical_json(pack.model_dump()).encode("utf-8")), counted as the
\* bytes of the texts the serialisation carries, which it is never below
pack_size(pack) == utf8_len(Flatten(input_texts_of(pack)))

size_reasons(size, max_bytes) ==
  IF size > max_bytes
  THEN <<Str("pack_size_exceeded_") \o Decimal(size) \o Str("_") \o Decimal(max_bytes)>>
  ELSE <<>>

\* an input gate that leaves out the PII check
input_gate_without_pii(pack, policy) ==
  guard_result(document_level_reasons(pack, min_level_order[policy.sanitize_min_level])
               \o note_level_reasons(pack, min_level_order[policy.sanitize_min_level])
               \o size_reasons(pack_size(pack), policy.max_bytes))

input_gate(pack, policy) ==
  guard_result(document_level_reasons(pack, min_level_order[policy.sanitize_min_level])
               \o note_level_reasons(pack, min_level_order[policy.sanitize_min_level])
               \o pii_gate_reasons(pii_gate_check(JoinWith(input_texts_of(pack), <<"NL", "NL">>)))
               \o size_reasons(pack_size(pack), policy.max_bytes))

test_mode(e) == e.FORTKNOX_TESTMODE = "1"

\* "test_mode" in test mode, else FORTKNOX_ENGINE_ID, else "remote"
engine_id_current(e) ==
  IF test_mode(e) THEN "test_mode"
  ELSE IF e.FORTKNOX_ENGINE_ID # "" THEN e.FORTKNOX_ENGINE_ID ELSE "remote"

\* the idempotency query of a handler that never finds a row
existing_reports_none(reports, request, input_fingerprint, engine_id) == <<>>

\* the idempotency query without the engine_id filter
existing_reports_any_engine(reports, request, input_fingerprint, engine_id) ==
  SelectSeq(reports, LAMBDA r : /\ r.project_id = request.project_id
                                /\ r.policy_id = request.policy_id
                                /\ r.template_id = request.template_id
                                /\ r.input_fingerprint = input_fingerprint)

\* the rows the idempotency query filters
existing_reports(reports, request, input_fingerprint, engine_id) ==
  SelectSeq(reports, LAMBDA r : /\ r.project_id = request.project_id
                                /\ r.policy_id = request.policy_id
                                /\ r.template_id = request.template_id
                                /\ r.input_fingerprint = input_fingerprint
                                /\ r.engine_id = engine_id)

\* not test_mode and not remote_url
fortknox_offline(e) == ~test_mode(e) /\ e.FORTKNOX_REMOTE_URL = ""

\* get_test_fixtures(): the fixed answers of test mode
internal_pass ==
  [title |-> Sv("Testrapport - Intern"),
   executive_summary |-> Sv("Detta ~ar en testrapport f~or intern anv~andning."),
   themes |-> <<[name |-> Sv("Tema 1"), bullets |-> <<Sv("Punkt 1"), Sv("Punkt 2")>>]>>,
   timeline_high_level |-> <<Sv("Vecka 1: H~andelse 1"), Sv("Vecka 2: H~andelse 2")>>,
   risks |-> <<[risk |-> Sv("Risk 1"), mitigation |-> Sv("~Rtg~ard 1")]>>,
   open_questions |-> <<Sv("Fr~rga 1"), Sv("Fr~rga 2")>>,
   next_steps |-> <<Sv("Steg 1"), Sv("Steg 2")>>,
   confidence |-> Sv("medium")]

external_fail ==
  [title |-> Sv("Testrapport - Extern"),
   executive_summary |->
     Sv("Detta ~ar en testrapport f~or extern anv~andning med l~rngt citat som kommer att trigga quote detection."),
   themes |-> <<[name |-> Sv("Tema 1"),
                 bullets |-> <<Sv("Detta ~ar ett mycket l~rngt citat fr~rn k~allan som kommer att trigga quote detection ")
                               \o Sv("eftersom det ~ar f~or m~rnga ord i f~oljd som matchar input texten")>>]>>,
   timeline_high_level |-> <<Sv("2025-01-15: H~andelse 1"), Sv("2025-01-16: H~andelse 2")>>,
   risks |-> <<[risk |-> Sv("Risk 1"), mitigation |-> Sv("~Rtg~ard 1")]>>,
   open_questions |-> <<Sv("Fr~rga 1")>>,
   next_steps |-> <<Sv("Steg 1")>>,
   confidence |-> Sv("low")]

DecimalDigits == <<"0", "1", "2", "3", "4", "5", "6", "7", "8", "9">>

\* int(s) of a decimal numeral
RECURSIVE int(_)
int(s) ==
  IF Len(s) = 0 THEN 0
  ELSE 10 * int(SubSeq(s, 1, Len(s) - 1))
       + (CHOOSE d \in 0..9 : DecimalDigits[d + 1] = s[Len(s)])

\* os.getenv(name, default): a variable that is not set is a missing field
getenv(e, name, default) == IF name \in DOMAIN e THEN e[name] ELSE default

\* REQUEST_TIMEOUT of fortknox_remote.py and the timeout of the request a
\* job makes to the API, in seconds
REQUEST_TIMEOUT_DEFAULT == 180
JOB_POST_TIMEOUT == 180

REQUEST_TIMEOUT(e) ==
  IF getenv(e, "FORTKNOX_REMOTE_TIMEOUT", "") = "" THEN REQUEST_TIMEOUT_DEFAULT
  ELSE int(Str(e.FORTKNOX_REMOTE_TIMEOUT))

\* an answer of the external compiler: an error raised by the client, or a
\* schema-valid KnoxLLMResponse
RemoteFailure(error_code, reason, detail) ==
  [error_code |-> error_code, reasons |-> <<Str(reason)>>, llm |-> None, detail |-> detail]

RemoteAnswer(llm_response) ==
  [error_code |-> "", reasons |-> <<>>, llm |-> Some(llm_response), detail |-> None]

\* repr() of a str without quotes or escapes in it
repr(text) == Str("'") \o text \o Str("'")

\* the line errors of a pydantic ValidationError: the place, the message,
\* the error type and the offending input with the name of its Python type
line_error(loc, msg, type, input, input_type) ==
  [loc |-> loc, msg |-> msg, type |-> type, input |-> input, input_type |-> input_type]

\* str(e) of a ValidationError with one line error (the line with the link
\* to the documentation of the error type is left out)
validation_error_str(title, err) ==
  Str("1 validation error for ") \o Str(title) \o Sv("~n") \o Str(err.loc) \o Sv("~n  ")
  \o Str(err.msg) \o Str(" [type=") \o Str(err.type) \o Str(", input_value=")
  \o repr(err.input) \o Str(", input_type=") \o Str(err.input_type) \o Str("]")

\* what KnoxLLMResponse(**response_data) raises for the answers of a live
\* compiler that fail the schema: here an answer whose timeline_high_level
\* is one string, a phrase of the answer, instead of a list of strings
SchemaErrors ==
  { line_error("timeline_high_level", "Input should be a valid list", "list_type",
               Sv("xxxx 2025-01-15 r s"), "str") }

\* answers a live compiler gives in the model: one that repeats two phrases
\* of a note, and one that carries an e-mail address
LLMAnswers ==
  { [title |-> Sv("T"), executive_summary |-> <<>>,
     themes |-> <<[name |-> Sv("T"),
                   bullets |-> <<Sv("19780126"), Sv("xxxx 2025-01-15 r s")>>]>>,
     timeline_high_level |-> <<>>, risks |-> <<>>, open_questions |-> <<>>,
     next_steps |-> <<>>, confidence |-> Sv("low")],
    [title |-> Sv("a@b.se"), executive_summary |-> <<>>, themes |-> <<>>,
     timeline_high_level |-> <<>>, risks |-> <<>>, open_questions |-> <<>>,
     next_steps |-> <<>>, confidence |-> Sv("low")] }

\* compile_remote(): the fixture of the policy's mode in test mode, else what
\* the POST to {remote_url}/compile ends in
compile_remote(policy, e) ==
  IF test_mode(e)
  THEN {RemoteAnswer(IF policy.mode = "external" THEN external_fail ELSE internal_pass)}
  ELSE {RemoteFailure("REMOTE_ERROR", "timeout",
                      Str("Request timeout after ") \o Decimal(REQUEST_TIMEOUT(e)) \o Str("s"))}
       \cup {RemoteFailure("SCHEMA_VALIDATION_ERROR", "llm_response_schema_validation_failed",
                          validation_error_str("KnoxLLMResponse", err)) : err \in SchemaErrors}
       \cup {RemoteAnswer(a) : a \in LLMAnswers}

\* compile_with_langchain(): FortKnoxLangChainConfigError unless
\* FORTKNOX_PIPELINE=langchain, else what the LLM call ends in
compile_with_langchain(policy, e) ==
  IF e.FORTKNOX_PIPELINE # "langchain"
  THEN {RemoteFailure("LANGCHAIN_DISABLED", "langchain_not_enabled_or_configured",
                      Str("LangChain pipeline disabled (set FORTKNOX_PIPELINE=langchain)"))}
  ELSE {RemoteFailure("REMOTE_ERROR", "langchain_llm_error", Str("ValueError"))}
       \cup {RemoteAnswer(a) : a \in LLMAnswers}

\* pii reasons with their prefix, then the guard's reasons
output_gate_reasons(check, guard) == pii_gate_reasons(check) \o MapSeq(guard.reasons, Str)

\* step 6: both checks on the rendered candidate
output_gate(rendered_text_candidate, input_texts, policy) ==
  output_gate_reasons(pii_gate_check(rendered_text_candidate),
                      re_id_guard(rendered_text_candidate, input_texts, policy))

OutputGateFailed(reasons) ==
  [error_code |-> "OUTPUT_GATE_FAILED", reasons |-> reasons, rendered_markdown |-> None,
   pii_gate_text |-> None, re_id_guard_text |-> None, repaired |-> FALSE]

max_breaks == 12

\* step 7b of compile_fortknox_report: a final text with a quote is rewritten
\* by break_quote_ngrams; the LangChain handler keeps the text. repaired
\* records that break_quote_ngrams has run
final_candidate(final_markdown, input_texts, policy, repair, guard) ==
  IF repair /\ ~guard.pass /\ \E k \in DOMAIN guard.reasons : guard.reasons[k] = "quote_detected"
  THEN [text |-> break_quote_ngrams(final_markdown, input_texts, policy, max_breaks).text,
        repaired |-> TRUE]
  ELSE [text |-> final_markdown, repaired |-> FALSE]

\* pii_gate_text is the text pii_gate_check has read and re_id_guard_text the
\* text the last re_id_guard call has read
final_verdict(reasons, final_markdown, candidate) ==
  IF Len(reasons) > 0
  THEN [OutputGateFailed(reasons) EXCEPT !.repaired = candidate.repaired]
  ELSE [error_code |-> "", reasons |-> <<>>, rendered_markdown |-> candidate.text,
        pii_gate_text |-> final_markdown, re_id_guard_text |-> candidate.text,
        repaired |-> candidate.repaired]

final_guard(final_markdown, candidate, input_texts, policy) ==
  final_verdict(output_gate_reasons(pii_gate_check(final_markdown),
                                    re_id_guard(candidate.text, input_texts, policy)),
                final_markdown, candidate)

final_output_gate(final_markdown, input_texts, policy, repair) ==
  final_guard(final_markdown,
              final_candidate(final_markdown, input_texts, policy, repair,
                              re_id_guard(final_markdown, input_texts, policy)),
              input_texts, policy)

first_output_gate(reasons, llm_json, policy, pack, repair) ==
  IF Len(reasons) > 0 THEN OutputGateFailed(reasons)
  ELSE final_output_gate(final_rendered_markdown(llm_json, policy, pack),
                         input_texts_of(pack), policy, repair)

\* steps 6 to 7b: the verdict on an answer and the text a report would store
output_stage(llm_json, policy, pack, repair) ==
  first_output_gate(output_gate(render_markdown(llm_json, pack.template_id),
                                input_texts_of(pack), policy),
                    llm_json, policy, pack, repair)

\* the source row create_project_source stores
SourceRow(id, type, title, url) ==
  [id |-> id, type |-> type, title |-> title, url |-> url, created_at |-> id]

\* what the ingestion handlers keep of each raw text
Stored(raw_texts) ==
  [k \in DOMAIN raw_texts |-> ProgressiveSanitize(normalize_text(raw_texts[k]))]

\* the rows the ingestion handlers store: a document and two notes
StoredRows(stored) ==
  [project |-> NoProject,
   documents |-> <<DocumentRow(1, stored[1])>>,
   project_notes |-> <<NoteRow(1, stored[2]), NoteRow(2, stored[3])>>,
   project_sources |-> <<SourceRow(1, "link", Sv("k"), Sv("http://k.se"))>>]

\* project tables the compile requests run on: a project with a document of
\* strict level, a note the answers above repeat, a note whose paranoid text
\* still holds an address, and a source; and a project with a source only
Inventories ==
  { StoredRows(Stored(<<Sv("123456789"),
                         Sv("just nu - 19780126 - xxxx 2025-01-15 r s"),
                         Sv("-@b.c")>>)),
    [project |-> NoProject,
     documents |-> <<>>,
     project_notes |-> <<>>,
     project_sources |-> <<SourceRow(1, "link", Sv("k"), Sv("http://k.se"))>>] }

PolicyIds == {"internal", "external"}

SelectionItem(type, id) == [type |-> type, id |-> id]

\* request.selection: none; one note (and, with no document named, every
\* document); the document alone; everything excluded
Selections ==
  { None,
    Some([include |-> <<SelectionItem("note", 1)>>, exclude |-> <<>>]),
    Some([include |-> <<SelectionItem("document", 1)>>,
          exclude |-> <<SelectionItem("note", 1), SelectionItem("note", 2)>>]),
    Some([include |-> <<>>,
          exclude |-> <<SelectionItem("document", 1), SelectionItem("note", 1),
                        SelectionItem("note", 2)>>]) }

KnoxCompileRequest(project_id, policy_id, selection, snapshot_mode) ==
  [project_id |-> project_id, policy_id |-> policy_id, template_id |-> "weekly",
   selection |-> selection, snapshot_mode |-> snapshot_mode]

CompileRequests ==
  {KnoxCompileRequest(1, p, s, FALSE) : p \in PolicyIds, s \in Selections}
  \cup {KnoxCompileRequest(1, p, None, TRUE) : p \in PolicyIds}
  \cup {KnoxCompileRequest(2, "internal", None, FALSE)}

\* the pack a request on the tables db ends with when it reaches the
\* external compiler
request_pack(request, db) ==
  apply_selection(build_knox_input_pack(request.project_id, get_policy(request.policy_id),
                                        request.template_id, db), request)

\* the requests whose packs the tables below are computed for: the compile
\* requests, and one that leaves out note 1
MemoRequests ==
  CompileRequests
  \cup {KnoxCompileRequest(1, p, Some([include |-> <<>>, exclude |-> <<SelectionItem("note", 1)>>]),
                           FALSE) : p \in PolicyIds}

\* the packs the requests above leave on the tables above
request_packs ==
  {request_pack(x[1], x[2]).pack :
     x \in {y \in MemoRequests \X Inventories :
               y[1].project_id = y[2].project.id /\ ~request_pack(y[1], y[2]).empty}}

\* input_gate() is a function of the pack (its policy is the pack's); its
\* values on these packs, computed once
input_gate_of == [pack \in request_packs |-> input_gate(pack, pack.policy)]

\* the packs that reach the external compiler
passed(gate_of) == {pack \in DOMAIN gate_of : total_inputs(pack) > 0 /\ gate_of[pack].pass}

compiled_packs == passed(input_gate_of)

\* the engine settings the server is started with: test mode; a live
\* compiler with the LangChain pipeline on; no endpoint; a live compiler
\* whose FORTKNOX_ENGINE_ID is set to "test_mode"
EnvConfigs ==
  { [FORTKNOX_TESTMODE |-> "1", FORTKNOX_REMOTE_URL |-> "", FORTKNOX_ENGINE_ID |-> "",
     FORTKNOX_PIPELINE |-> "default", RATE_LIMITS |-> "0"],
    [FORTKNOX_TESTMODE |-> "0", FORTKNOX_REMOTE_URL |-> "http://knox", FORTKNOX_ENGINE_ID |-> "",
     FORTKNOX_PIPELINE |-> "langchain", RATE_LIMITS |-> "0"],
    [FORTKNOX_TESTMODE |-> "0", FORTKNOX_REMOTE_URL |-> "", FORTKNOX_ENGINE_ID |-> "",
     FORTKNOX_PIPELINE |-> "default", RATE_LIMITS |-> "0"],
    [FORTKNOX_TESTMODE |-> "0", FORTKNOX_REMOTE_URL |-> "http://knox",
     FORTKNOX_ENGINE_ID |-> "test_mode", FORTKNOX_PIPELINE |-> "default", RATE_LIMITS |-> "0"] }

llm_responses(outcomes) == {o.llm[1] : o \in {x \in outcomes : x.error_code = ""}}

\* steps 6 to 7b are a function of the answer, the pack and the handler
\* (repair is TRUE in compile_fortknox_report); its values on the answers
\* the compilers above can give for the packs above, computed once
output_stage_of ==
  [k \in UNION {
       ((UNION {llm_responses(compile_remote(pack.policy, e)) : e \in EnvConfigs})
          \X {pack} \X {TRUE})
       \cup ((UNION {llm_responses(compile_with_langchain(pack.policy, e)) : e \in EnvConfigs})
               \X {pack} \X {FALSE}) : pack \in compiled_packs} |->
     output_stage(k[1], k[2].policy, k[2], k[3])]

MaxReports == 2

\* the documents and notes of a pack
included_items(pack) ==
  {<<"document", pack.documents[k].doc_id>> : k \in DOMAIN pack.documents}
  \cup {<<"note", pack.notes[k].note_id>> : k \in DOMAIN pack.notes}

\* a response under construction. Besides status, error_code, reasons and
\* the report of the body it records what the handler did: the settings it
\* read, the items left after the selection, the input gate's result, the
\* engine id and fingerprint it looked up, the rows the query returned, the
\* pack given to the external compiler, and the texts the final checks have
\* read
KnoxResponse(op, request) ==
  [op |-> op, request |-> request, env |-> env, status |-> 0, error_code |-> "",
   reasons |-> <<>>, report |-> None, inserted |-> FALSE, included |-> None,
   input_gate |-> None, key |-> None, lookup |-> None, sent |-> None, output |-> None,
   detail |-> None]

KnoxErrorResponse(r, status, error_code, reasons) ==
  [r EXCEPT !.status = status, !.error_code = error_code, !.reasons = reasons]

\* the detail string of a KnoxErrorResponse or of an HTTPException
detailed(r, detail) == [r EXCEPT !.detail = detail]

\* an exit that stores nothing
Reply(r) == response' = r /\ UNCHANGED knox_reports

\* the KnoxReport row of step 8; backend is not a column: it records which
\* compiler produced the text
KnoxReport(id, request, pack, engine_id, rendered_markdown, backend) ==
  [id |-> id, project_id |-> request.project_id, policy_id |-> pack.policy.policy_id,
   policy_version |-> pack.policy.policy_version, ruleset_hash |-> pack.policy.ruleset_hash,
   template_id |-> request.template_id, engine_id |-> engine_id,
   input_fingerprint |-> pack.input_fingerprint, input_manifest |-> pack.input_manifest,
   gate_results |-> [input |-> [pass |-> TRUE, reasons |-> <<>>],
                     output |-> [pass |-> TRUE, reasons |-> <<>>]],
   rendered_markdown |-> rendered_markdown, created_at |-> id, backend |-> backend]

backend_of(op, e) ==
  IF op = "compile_fortknox_report_langchain" THEN "langchain"
  ELSE IF test_mode(e) THEN "fixture" ELSE "remote"

\* a store that keeps one report per project
Insert_replacing(r, row) ==
  /\ knox_reports' = <<row>>
  /\ response' = [r EXCEPT !.status = 201, !.report = Some(row), !.inserted = TRUE]

Insert(r, row) ==
  /\ knox_reports' = Append(knox_reports, row)
  /\ response' = [r EXCEPT !.status = 201, !.report = Some(row), !.inserted = TRUE]

\* steps 6 to 8
after_compile(r, pack, engine_id, verdict) ==
  IF verdict.error_code # ""
  THEN Reply(detailed(KnoxErrorResponse([r EXCEPT !.output = Some([repaired |-> verdict.repaired])],
                                        400, verdict.error_code, verdict.reasons),
                      Str("Output gate validation failed")))
  ELSE Insert([r EXCEPT !.output = Some([pii_gate_text |-> verdict.pii_gate_text,
                                         re_id_guard_text |-> verdict.re_id_guard_text,
                                         repaired |-> verdict.repaired])],
              KnoxReport(Len(knox_reports) + 1, r.request, pack, engine_id,
                         verdict.rendered_markdown, backend_of(r.op, env)))

\* step 5: a FortKnoxRemoteError becomes REMOTE_ERROR (500); the LangChain
\* handler answers 409 when the pipeline is not enabled
after_call(r, pack, engine_id, outcome) ==
  IF outcome.error_code = "LANGCHAIN_DISABLED"
  THEN Reply(detailed(KnoxErrorResponse(r, 409, "LANGCHAIN_DISABLED", outcome.reasons),
                      outcome.detail))
  ELSE IF outcome.error_code # ""
  THEN Reply(detailed(KnoxErrorResponse([r EXCEPT !.sent = Some(pack)], 500, "REMOTE_ERROR",
                                        outcome.reasons),
                      outcome.detail))
  ELSE after_compile([r EXCEPT !.sent = Some(pack)], pack, engine_id,
                     output_stage_of[<<outcome.llm[1], pack, r.op = "compile_fortknox_report">>])

external_compiler(op, policy, e) ==
  IF op = "compile_fortknox_report_langchain" THEN compile_with_langchain(policy, e)
  ELSE compile_remote(policy, e)

\* steps 3 and 4: the stored report if the query finds one (the first row,
\* or the newest one in the LangChain handler), else the offline exit of
\* compile_fortknox_report, else the call
after_lookup(r, pack, engine_id, existing) ==
  IF Len(existing) > 0
  THEN Reply([r EXCEPT !.status = 201,
                       !.report = Some(IF r.op = "compile_fortknox_report_langchain"
                                       THEN existing[Len(existing)] ELSE existing[1]),
                       !.lookup = Some(existing)])
  ELSE IF r.op = "compile_fortknox_report" /\ fortknox_offline(env)
  THEN Reply(detailed(KnoxErrorResponse([r EXCEPT !.lookup = Some(existing)], 503,
                                        "FORTKNOX_OFFLINE", <<Str("remote_url_not_configured")>>),
                      Str("FORTKNOX_REMOTE_URL not set")))
  ELSE \E outcome \in external_compiler(r.op, pack.policy, env) :
         after_call([r EXCEPT !.lookup = Some(existing)], pack, engine_id, outcome)

handler_engine_id(op, e) ==
  IF op = "compile_fortknox_report_langchain" THEN "langchain" ELSE engine_id_current(e)

\* step 2
after_input_gate(r, pack, gate) ==
  IF ~gate.pass
  THEN Reply(detailed(KnoxErrorResponse([r EXCEPT !.input_gate = Some(gate)], 400,
                                        "INPUT_GATE_FAILED", gate.reasons),
                      Str("Input gate validation failed")))
  ELSE after_lookup([r EXCEPT !.input_gate = Some(gate),
                              !.key = Some([engine_id |-> handler_engine_id(r.op, env),
                                            input_fingerprint |-> pack.input_fingerprint])],
                    pack, handler_engine_id(r.op, env),
                    existing_reports(knox_reports, r.request, pack.input_fingerprint,
                                     handler_engine_id(r.op, env)))

\* steps 1.2 and 1.5: the two EMPTY_INPUT_SET exits
after_selection(r, policy, selected) ==
  IF selected.empty
  THEN Reply(detailed(KnoxErrorResponse([r EXCEPT !.included = Some({})], 400, "EMPTY_INPUT_SET",
                                        <<Str("Selection produced empty input set")>>),
                      Str("Selection produced empty input set")))
  ELSE IF total_inputs(selected.pack) = 0
  THEN Reply(detailed(KnoxErrorResponse([r EXCEPT !.included = Some({})], 400, "EMPTY_INPUT_SET",
                                        <<Str("Input set is empty after exclusion")>>),
                      Str("Input set is empty after exclusion")))
  ELSE after_input_gate([r EXCEPT !.included = Some(included_items(selected.pack))],
                        selected.pack, input_gate_of[selected.pack])

\* the per-minute default of the compile endpoints and the window of
\* rate_limit(), in seconds
DEFAULT_PER_MINUTE == 6
WINDOW_SECONDS == 60

RATE_LIMITS_ENABLED(e) == getenv(e, "RATE_LIMITS", "1") = "1"

\* int(os.getenv("RATE_LIMIT_FORTKNOX_COMPILE_PER_MIN", "6"))
per_minute_limit(e) ==
  IF getenv(e, "RATE_LIMIT_FORTKNOX_COMPILE_PER_MIN", "") = "" THEN DEFAULT_PER_MINUTE
  ELSE int(Str(e.RATE_LIMIT_FORTKNOX_COMPILE_PER_MIN))

\* hits = [t for t in hits if t >= window_start]
recent_hits(hits, t, window_seconds) == SelectSeq(hits, LAMBDA x : x >= t - window_seconds)

\* _rate_limit_check() run from its first statement to its last at time t:
\* 429 with the state as it was, or the state with the hit appended
rate_limit_check(state, key, limit, window_seconds, t) ==
  IF Len(recent_hits(state[key], t, window_seconds)) >= limit
  THEN [admitted |-> FALSE, state |-> state]
  ELSE [admitted |-> TRUE,
        state |-> [state EXCEPT ![key] = Append(recent_hits(@, t, window_seconds), t)]]

\* the dependency rate_limit("fortknox_compile", 6) for a user
rate_limit(e, state, username, t) ==
  IF ~RATE_LIMITS_ENABLED(e) THEN [admitted |-> TRUE, state |-> state]
  ELSE rate_limit_check(state, username, per_minute_limit(e), WINDOW_SECONDS, t)

\* the user the compile requests of the model are made as, which is also
\* the user of the request a job makes (BASIC_AUTH_ADMIN_USER)
auth_user == "admin"

\* {"detail": "Rate limit exceeded"}
RateLimitExceeded(op, request) ==
  detailed([KnoxResponse(op, request) EXCEPT !.status = 429], Str("Rate limit exceeded"))

\* str(e) of the ValueError of build_knox_input_pack() in the compile
\* handler, type(e).__name__ in the LangChain handler
project_not_found(op, project_id) ==
  IF op = "compile_fortknox_report_langchain" THEN Str("ValueError")
  ELSE Str("Project ") \o Decimal(project_id) \o Str(" not found")

\* _run_job_http_post() up to its request: the job is marked running; calls
\* counts the external compiler calls made for the job
with_running(job_id, r) ==
  IF job_id = 0 THEN ai_jobs
  ELSE [ai_jobs EXCEPT ![job_id].status = "running", ![job_id].progress = 10,
                       ![job_id].calls = @ + (IF r.sent # None THEN 1 ELSE 0)]

\* POST /api/fortknox/compile and POST /api/fortknox/compile/langchain: the
\* two handlers run the same steps and differ in the engine id, the order of
\* the idempotency query, the offline exit, the compiler and the quote
\* repair. A project that is not found ends in INTERNAL_ERROR. A request is
\* served when the previous response has been received. A request made by
\* the background task of a job (job_id > 0) is served while the job is
\* queued, and the job is running from then on.
compile_pipeline(op, request, job_id) ==
  /\ response.op = "none"
  /\ job_id # 0 => job_id \in DOMAIN ai_jobs /\ ai_jobs[job_id].status = "queued"
  /\ Len(knox_reports) < MaxReports
  /\ rate_limit_state' = rate_limit(env, rate_limit_state, auth_user, now).state
  /\ IF ~rate_limit(env, rate_limit_state, auth_user, now).admitted
     THEN Reply(RateLimitExceeded(op, request))
     ELSE IF request.project_id # project.id
     THEN Reply(detailed(KnoxErrorResponse(KnoxResponse(op, request), 500, "INTERNAL_ERROR",
                                           <<Str("unexpected_error")>>),
                         project_not_found(op, request.project_id)))
     ELSE after_selection(KnoxResponse(op, request), get_policy(request.policy_id),
                          apply_selection(build_knox_input_pack(request.project_id,
                                                                get_policy(request.policy_id),
                                                                request.template_id, get_db),
                                          request))
  /\ ai_jobs' = with_running(job_id, response')
  /\ UNCHANGED <<probe, documents, project_notes, project_sources, project, env, handlers, now>>

compile_fortknox_report(request) == compile_pipeline("compile_fortknox_report", request, 0)

compile_fortknox_report_langchain(request) ==
  compile_pipeline("compile_fortknox_report_langchain", request, 0)

\* the client reads the response; the answer to a job's own request is read
\* by the job
receive_response ==
  /\ response.op # "none"
  /\ \A k \in DOMAIN ai_jobs : ai_jobs[k].status # "running"
  /\ response' = NoResponse
  /\ UNCHANGED <<probe, documents, project_notes, project_sources, project, knox_reports, env, ai_jobs, handlers,
                 rate_limit_state, now>>

\* the server is restarted with other engine settings
SetEnv(e) ==
  /\ response.op = "none"
  /\ e # env
  /\ env' = e
  /\ UNCHANGED <<probe, documents, project_notes, project_sources, project, knox_reports,
                 response, ai_jobs, handlers, rate_limit_state, now>>

InitCompile ==
  /\ probe = NoProbe
  /\ \E db \in Inventories :
       /\ project = db.project
       /\ documents = db.documents
       /\ project_notes = db.project_notes
       /\ project_sources = db.project_sources
  /\ knox_reports = <<>>
  /\ env \in EnvConfigs
  /\ response = NoResponse
  /\ ai_jobs = <<>> /\ handlers = <<>>
  /\ rate_limit_state = NoHits /\ now = 0

NextCompile ==
  \/ \E request \in CompileRequests : compile_fortknox_report(request)
  \/ \E request \in CompileRequests : compile_fortknox_report_langchain(request)
  \/ \E e \in EnvConfigs : SetEnv(e)
  \/ receive_response

SpecCompile == InitCompile /\ [][NextCompile]_vars

CompileOps == {"compile_fortknox_report", "compile_fortknox_report_langchain"}

\* the key columns of a report row
report_key(r) ==
  [project_id |-> r.project_id, policy_id |-> r.policy_id, template_id |-> r.template_id,
   engine_id |-> r.engine_id, input_fingerprint |-> r.input_fingerprint]

\* the key a response's request was looked up under
response_key(r) ==
  [project_id |-> r.request.project_id, policy_id |-> r.request.policy_id,
   template_id |-> r.request.template_id, engine_id |-> r.key[1].engine_id,
   input_fingerprint |-> r.key[1].input_fingerprint]

\* the documents and notes a manifest lists
manifest_items(manifest) ==
  {<<manifest[k].kind, manifest[k].id>> :
     k \in {j \in DOMAIN manifest : manifest[j].kind # "source"}}

C4_Idempotent ==
  /\ \A i, j \in DOMAIN knox_reports :
       report_key(knox_reports[i]) = report_key(knox_reports[j]) => i = j
  /\ \A i \in DOMAIN knox_reports : knox_reports[i].id = i
  /\ (response.op \in CompileOps /\ response.key # None) =>
       \A i \in DOMAIN knox_reports :
         report_key(knox_reports[i]) = response_key(response) =>
           /\ response.status = 201
           /\ response.report = Some(knox_reports[i])
           /\ response.inserted = (response.lookup[1] = <<>>)

\* a second request with a key that has a row has been answered with the row
C4_Replayed ==
  /\ response.op \in CompileOps
  /\ response.status = 201
  /\ ~response.inserted
  /\ response.report[1].id = 1
  /\ Len(knox_reports) = 1

\* C5: a report produced by the test fixtures is never returned for a compile
\* request served while test mode is off; under every configuration of the
\* engine settings the idempotency lookup returns only reports of the backend
\* that would serve the current request.
C5_NoFixtureWhenLive ==
  (response.op \in CompileOps /\ response.status = 201) =>
    /\ ~test_mode(response.env) => response.report[1].backend # "fixture"
    /\ response.report[1].backend = backend_of(response.op, response.env)

\* the rows compiled before for the request's project, policy, template and
\* fingerprint, under any engine
compiled_before(r) ==
  SelectSeq(knox_reports,
            LAMBDA row : /\ row.project_id = r.request.project_id
                         /\ row.policy_id = r.request.policy_id
                         /\ row.template_id = r.request.template_id
                         /\ row.input_fingerprint = r.key[1].input_fingerprint)

offline_request(r) ==
  /\ r.op = "compile_fortknox_report"
  /\ fortknox_offline(r.env)
  /\ r.input_gate # None /\ r.input_gate[1].pass

same_engine_before(r) ==
  SelectSeq(compiled_before(r), LAMBDA row : row.engine_id = engine_id_current(r.env))

C8_EmptyInputSet ==
  (response.op \in CompileOps /\ response.included = Some({})) =>
    /\ response.status = 400 /\ response.error_code = "EMPTY_INPUT_SET"
    /\ response.lookup = None
    /\ response.sent = None

\* C10: two compile requests on the same project state whose selections
\* leave different sets of documents and notes get different fingerprints,
\* so the idempotency lookup never returns for one selection the report
\* stored for another.
C10_SelectionsDoNotCollide ==
  /\ \A i, j \in DOMAIN knox_reports :
       manifest_items(knox_reports[i].input_manifest)
         # manifest_items(knox_reports[j].input_manifest)
       => knox_reports[i].input_fingerprint # knox_reports[j].input_fingerprint
  /\ (response.op \in CompileOps /\ response.key # None) =>
       \A i \in DOMAIN knox_reports :
         manifest_items(knox_reports[i].input_manifest) # response.included[1]
         => knox_reports[i].input_fingerprint # response.key[1].input_fingerprint
  /\ (response.op \in CompileOps /\ response.status = 201) =>
       manifest_items(response.report[1].input_manifest) = response.included[1]

\* reports of two selections stand side by side under one policy and engine
C10_TwoSelectionsStored ==
  /\ Len(knox_reports) = 2
  /\ knox_reports[1].policy_id = knox_reports[2].policy_id
  /\ knox_reports[1].engine_id = knox_reports[2].engine_id
  /\ manifest_items(knox_reports[1].input_manifest)
       # manifest_items(knox_reports[2].input_manifest)
  /\ response.op \in CompileOps /\ response.inserted
  /\ response.request.selection # None

(***************************************************************************)
(* The pack fingerprint under the handlers that change a project's rows    *)
(***************************************************************************)
MaxSources == 2

\* POST /api/projects/{id}/sources
create_project_source(type, title, url) ==
  /\ Len(project_sources) < MaxSources
  /\ project_sources' =
       Append(project_sources, SourceRow(Len(project_sources) + 1, type, title, url))
  /\ response' = [op |-> "create_project_source", status |-> 201]
  /\ UNCHANGED <<probe, documents, project_notes, project, knox_reports, env, ai_jobs, handlers,
                 rate_limit_state, now>>

\* a field of an update body: the stored value when the field is None
updated_field(old, field) == IF field = None THEN old ELSE field[1]

\* PUT /api/projects/{id}/sources/{source_id}
update_project_source(source_id, source_update) ==
  /\ IF source_id \in DOMAIN project_sources
     THEN /\ project_sources' = [project_sources EXCEPT ![source_id] =
                 [@ EXCEPT !.title = updated_field(@, source_update.title),
                           !.type = updated_field(@, source_update.type),
                           !.url = updated_field(@, source_update.url)]]
          /\ response' = [op |-> "update_project_source", status |-> 200]
     ELSE /\ response' = [op |-> "update_project_source", status |-> 404]
          /\ UNCHANGED project_sources
  /\ UNCHANGED <<probe, documents, project_notes, project, knox_reports, env, ai_jobs, handlers,
                 rate_limit_state, now>>

\* PUT /api/projects/{project_id}
update_project(project_id, project_update) ==
  /\ IF project_id = project.id
     THEN /\ project' = [project EXCEPT !.name = updated_field(@, project_update.name),
                                        !.tags = updated_field(@, project_update.tags)]
          /\ response' = [op |-> "update_project", status |-> 200]
     ELSE /\ response' = [op |-> "update_project", status |-> 404]
          /\ UNCHANGED project
  /\ UNCHANGED <<probe, documents, project_notes, project_sources, knox_reports, env, ai_jobs, handlers,
                 rate_limit_state, now>>

\* PATCH /api/projects/{project_id}/status
update_project_status(project_id, status) ==
  /\ IF project_id = project.id
     THEN /\ project' = [project EXCEPT !.status = status]
          /\ response' = [op |-> "update_project_status", status |-> 200]
     ELSE /\ response' = [op |-> "update_project_status", status |-> 404]
          /\ UNCHANGED project
  /\ UNCHANGED <<probe, documents, project_notes, project_sources, knox_reports, env, ai_jobs, handlers,
                 rate_limit_state, now>>

\* request bodies: source types, titles and urls, project names, tags and
\* statuses, and note bodies that end on different sanitize levels
SourceTypes == {"link", "person"}
SourceTitles == {Str("k")}
SourceUrls == {None}
NoSourceUpdate == [title |-> None, type |-> None, url |-> None]
ProjectSourceUpdates ==
  {[NoSourceUpdate EXCEPT !.title = Some(Str("m"))],
   [NoSourceUpdate EXCEPT !.url = Some(Str("u"))]}
  \cup {[NoSourceUpdate EXCEPT !.type = Some(t)] : t \in SourceTypes}
ProjectUpdates == [name : {None, Some("q")}, tags : {None, Some(<<"t">>)}]
ProjectStatuses == {"research", "ready"}
NoteBodies == {Str("ab"), Str("123456789")}

InitPack ==
  /\ probe = NoProbe
  /\ documents = <<>> /\ project_notes = <<>> /\ project_sources = <<>>
  /\ project = NoProject /\ knox_reports = <<>> /\ env = NoEnv
  /\ response = NoResponse
  /\ ai_jobs = <<>> /\ handlers = <<>>
  /\ rate_limit_state = NoHits /\ now = 0

NextPack ==
  \/ \E type \in SourceTypes, title \in SourceTitles, url \in SourceUrls :
        create_project_source(type, title, url)
  \/ \E source_id \in 1..MaxSources, source_update \in ProjectSourceUpdates :
        update_project_source(source_id, source_update)
  \/ \E project_id \in 1..2, project_update \in ProjectUpdates :
        update_project(project_id, project_update)
  \/ \E project_id \in 1..2, status \in ProjectStatuses :
        update_project_status(project_id, status)
  \/ \E body \in NoteBodies : create_note(body)
  \/ \E note_id \in 1..MaxNotes, body \in NoteBodies : update_project_note(note_id, body)

SpecPack == InitPack /\ [][NextPack]_vars

\* the fingerprint of the pack built from the current rows
current_fingerprint ==
  build_knox_input_pack(project.id, get_policy("internal"), "weekly", get_db).input_fingerprint

\* what a manifest entry says about its item: its kind and id, its content
\* hash (the url hash of a source) and its sanitize level
entry_content(m) ==
  IF m.kind = "source"
  THEN [kind |-> m.kind, id |-> m.id, hash |-> m.url_hash, sanitize_level |-> None]
  ELSE [kind |-> m.kind, id |-> m.id, hash |-> m.sha256, sanitize_level |-> m.sanitize_level]

manifest_content == {entry_content(pack_manifest(get_db)[k]) : k \in DOMAIN pack_manifest(get_db)}

\* C9: a step changes the pack fingerprint if and only if it changes some
\* manifest entry's content hash or sanitize level or the set of included
\* items; a step that changes neither leaves the fingerprint as it was
C9_FingerprintTracksManifest ==
  [][(current_fingerprint' # current_fingerprint) <=> (manifest_content' # manifest_content)]_vars

(***************************************************************************)
(* re_id_guard and break_quote_ngrams on arbitrary short candidates        *)
(***************************************************************************)
MaxQuoteLen == 5
MaxQuoteLimit == 2
MaxBreakLimit == 2

QuoteAlphabet == {"a", "B", "x", " "}
QuoteCandidates == UNION {[1..n -> QuoteAlphabet] : n \in 0..MaxQuoteLen}

\* lists of source texts: none, one text, and two texts of which one has a
\* line break and a double space between its words
QuoteSources ==
  { <<>>,
    <<Str("a B")>>,
    <<Str("b"), <<"a", "NL", "b", " ", " ", "a">> >> }

\* a policy with the given quote limit
QuotePolicy(policy_id, quote_limit_words) ==
  [get_policy(policy_id) EXCEPT !.quote_limit_words = quote_limit_words]

QuoteProbe(rendered_text, input_texts, policy) ==
  [rendered_text |-> rendered_text, input_texts |-> input_texts, policy |-> policy,
   guard |-> None, repaired |-> None, limit |-> 0, guard_after |-> None]

\* candidates under the policies as shipped (quote limit 8): a nine-word run
\* copied from the source, and the same run behind a longer first word
NineWords == Str("a b c d e f g h i")
QuoteFixtures ==
  {QuoteProbe(NineWords, <<NineWords>>, get_policy("external")),
   QuoteProbe(<<"x">> \o NineWords, <<NineWords>>, get_policy("external")),
   QuoteProbe(NineWords \o Str(" j"), <<NineWords>>, get_policy("internal"))}

InitQuote ==
  /\ probe \in QuoteFixtures \cup
               {QuoteProbe(t, ts, QuotePolicy("external", q)) :
                  t \in QuoteCandidates, ts \in QuoteSources, q \in 0..MaxQuoteLimit}
  /\ documents = <<>> /\ project_notes = <<>> /\ project_sources = <<>>
  /\ project = NoProject /\ knox_reports = <<>> /\ env = NoEnv
  /\ response = NoResponse
  /\ ai_jobs = <<>> /\ handlers = <<>>
  /\ rate_limit_state = NoHits /\ now = 0

\* re_id_guard(rendered_text, input_texts, policy)
run_re_id_guard ==
  /\ probe.guard = None
  /\ probe' = [probe EXCEPT !.guard =
                 Some(re_id_guard(probe.rendered_text, probe.input_texts, probe.policy))]
  /\ UNCHANGED <<documents, project_notes, project_sources, project,
                 knox_reports, env, response, ai_jobs, handlers, rate_limit_state, now>>

\* break_quote_ngrams(rendered_text, input_texts, policy, max_breaks=limit)
\* and re_id_guard on its result
run_break_quote_ngrams(limit) ==
  /\ probe.guard # None /\ probe.repaired = None
  /\ \E r \in {break_quote_ngrams(probe.rendered_text, probe.input_texts, probe.policy,
                                  limit)} :
          probe' = [probe EXCEPT !.repaired = Some(r), !.limit = limit,
                                 !.guard_after =
                                    Some(re_id_guard(r.text, probe.input_texts,
                                                     probe.policy))]
  /\ UNCHANGED <<documents, project_notes, project_sources, project,
                 knox_reports, env, response, ai_jobs, handlers, rate_limit_state, now>>

NextQuote ==
  \/ run_re_id_guard
  \/ \E limit \in 1..MaxBreakLimit : run_break_quote_ngrams(limit)

SpecQuote == InitQuote /\ [][NextQuote]_vars

\* the probes of the guard specification
quote_probe == "rendered_text" \in DOMAIN probe

\* the normalised runs of quote_limit_words + 1 words of the source texts
\* that the normalised candidate holds
copied_runs(p) ==
  {g \in all_input_n_grams(p.input_texts, p.policy.quote_limit_words + 1) :
     Contains(g, normalize_text_for_n_gram(p.rendered_text))}

\* C11: for every candidate, list of source texts and policy, if a run of
\* quote_limit_words + 1 words of a lowercased, whitespace-collapsed source
\* text is in the lowercased, whitespace-collapsed candidate, re_id_guard
\* fails with the reason quote_detected.
C11_CopiedRunDetected ==
  (quote_probe /\ probe.guard # None /\ copied_runs(probe) # {}) =>
     /\ ~probe.guard[1].pass
     /\ probe.guard[1].reasons = <<"quote_detected">>

\* the guard has failed a candidate that holds a source run behind another
\* letter and in another case
C11_RunInsideWord ==
  /\ quote_probe /\ probe.guard # None
  /\ probe.rendered_text = Str("xa B")
  /\ probe.input_texts = <<Str("a B")>>
  /\ probe.policy.quote_limit_words = 1
  /\ ~probe.guard[1].pass

\* C12: for every policy with quote_limit_words >= 1 and every candidate in
\* which the guard detects a source run, after break_quote_ngrams the words
\* of the run are no longer contiguous in the repaired text and re_id_guard
\* on the repaired text does not report the run.
C12_BreakSeparatesRun ==
  (quote_probe /\ probe.repaired # None /\ probe.policy.quote_limit_words >= 1) =>
     \A g \in copied_runs(probe) :
        ~Contains(g, normalize_text_for_n_gram(probe.repaired[1].text))

\* the places of a text at which a break marker stands
marker_places(text) ==
  {i \in 1..(Len(text) - 2) : SubSeq(text, i, i + 2) = <<" ", "ELL", " ">>}

RECURSIVE without_markers(_, _)
\* the texts left by deleting k break markers, one after the other
without_markers(texts, k) ==
  IF k = 0 THEN texts
  ELSE without_markers(UNION {{SubSeq(t, 1, i - 1) \o DropFirst(t, i + 2) :
                                 i \in marker_places(t)} : t \in texts}, k - 1)

\* C13: break_quote_ngrams only inserts break markers: deleting the inserted
\* " ... " triples from its output gives the input character for character,
\* the reported count is the number of inserted markers, and it never
\* exceeds max_breaks.
C13_OnlyMarkersInserted ==
  (quote_probe /\ probe.repaired # None) =>
     /\ probe.repaired[1].breaks <= probe.limit
     /\ Len(probe.repaired[1].text) = Len(probe.rendered_text) + 3 * probe.repaired[1].breaks
     /\ probe.rendered_text \in without_markers({probe.repaired[1].text},
                                                probe.repaired[1].breaks)

\* two markers have been put into a candidate
C13_TwoMarkers ==
  /\ quote_probe /\ probe.repaired # None
  /\ probe.repaired[1].breaks = 2
  /\ probe.limit = 2
  /\ probe.repaired[1].text # probe.rendered_text

\* C14: in every compile path, whenever re_id_guard reports quote_detected on
\* a rendered candidate, break_quote_ngrams is run and the guard is re-run on
\* its result before the request fails with OUTPUT_GATE_FAILED.
C14_RepairBeforeFailure ==
  (/\ response.op \in CompileOps
   /\ response.error_code = "OUTPUT_GATE_FAILED"
   /\ \E k \in DOMAIN response.reasons : response.reasons[k] = Str("quote_detected"))
  => response.output[1].repaired

(***************************************************************************)
(* Sanitize levels and usage restrictions under ingestion, edits,          *)
(* re-sanitizing and level bumps                                           *)
(***************************************************************************)
\* mask_datetime on the text of a strict or paranoid pipeline result
with_datetime_masked(r) ==
  IF r.sanitize_level = "normal" THEN r
  ELSE [r EXCEPT !.masked_text = mask_datetime(r.masked_text, r.sanitize_level).text]

\* run_sanitize_pipeline(raw_text): ok is FALSE where the function raises
checked_pipeline(r) ==
  IF r.sanitize_level = "paranoid" /\ ~pii_gate_check(r.masked_text).is_safe
  THEN [ok |-> FALSE, masked_text |-> <<>>, sanitize_level |-> "paranoid"]
  ELSE [ok |-> TRUE, masked_text |-> with_datetime_masked(r).masked_text,
        sanitize_level |-> r.sanitize_level]

run_sanitize_pipeline(raw_text) == checked_pipeline(ProgressiveSanitize(normalize_text(raw_text)))

\* the feed import raises a normal result to strict, or to paranoid when the
\* strict text fails the gate; the item is skipped when the paranoid text
\* fails it too
feed_paranoid(paranoid_masked) ==
  [ok |-> pii_gate_check(paranoid_masked).is_safe, masked_text |-> paranoid_masked,
   sanitize_level |-> "paranoid"]

feed_strict(normalized, strict_masked) ==
  IF pii_gate_check(strict_masked).is_safe
  THEN [ok |-> TRUE, masked_text |-> strict_masked, sanitize_level |-> "strict"]
  ELSE feed_paranoid(mask_datetime(mask_text(normalized, "paranoid"), "paranoid").text)

enforce_min_strict(pipeline_result, normalized) ==
  IF pipeline_result.ok /\ pipeline_result.sanitize_level = "normal"
  THEN feed_strict(normalized, mask_datetime(mask_text(normalized, "strict"), "strict").text)
  ELSE pipeline_result

feed_item_result(raw_content) ==
  enforce_min_strict(run_sanitize_pipeline(raw_content), normalize_text(raw_content))

\* POST /api/projects/from-feed with one item: the document, the source and
\* the note the import stores for it. The rows go to the project the model
\* keeps.
create_project_from_feed(raw_content) ==
  /\ documents = <<>> /\ project_notes = <<>> /\ project_sources = <<>>
  /\ \E r \in {feed_item_result(raw_content)} :
        IF r.ok
        THEN /\ documents' =
                  <<[NewDocument(r) EXCEPT !.document_metadata = [source_type |-> "feed"],
                                           !.file_text = raw_content,
                                           !.ingested = Some(raw_content)]>>
             /\ project_sources' = <<SourceRow(1, "link", Str("k"), Str("u"))>>
             /\ project_notes' =
                  <<[NewNote(r) EXCEPT !.usage_restrictions = NewDocument(r).usage_restrictions,
                                       !.ingested = Some(raw_content)]>>
        ELSE UNCHANGED <<documents, project_sources, project_notes>>
  /\ response' = [op |-> "create_project_from_feed", status |-> 201]
  /\ UNCHANGED <<probe, project, knox_reports, env, ai_jobs, handlers, rate_limit_state, now>>

\* the text and level a sanitize-level bump would store
bumped(masked, desired) == mask_datetime(mask_text(normalize_text(masked), desired), desired).text

\* PUT /api/documents/{document_id}/sanitize-level
update_document_sanitize_level(document_id, desired) ==
  /\ IF document_id \notin DOMAIN documents
     THEN /\ response' = [op |-> "update_document_sanitize_level", status |-> 404]
          /\ UNCHANGED documents
     ELSE IF min_level_order[documents[document_id].sanitize_level] >= min_level_order[desired]
     THEN /\ response' = [op |-> "update_document_sanitize_level", status |-> 200]
          /\ UNCHANGED documents
     ELSE \E new_masked \in {bumped(documents[document_id].masked_text, desired)} :
            IF ~pii_gate_check(new_masked).is_safe
            THEN /\ response' = [op |-> "update_document_sanitize_level", status |-> 400]
                 /\ UNCHANGED documents
            ELSE /\ documents' = [documents EXCEPT ![document_id] =
                        [@ EXCEPT !.masked_text = new_masked, !.sanitize_level = desired,
                                  !.ingested = None]]
                 /\ response' = [op |-> "update_document_sanitize_level", status |-> 200]
  /\ UNCHANGED <<probe, project_notes, project_sources, project, knox_reports, env, ai_jobs, handlers,
                 rate_limit_state, now>>

\* PUT /api/projects/{project_id}/notes/{note_id}/sanitize-level
update_note_sanitize_level(note_id, desired) ==
  /\ IF note_id \notin DOMAIN project_notes
     THEN /\ response' = [op |-> "update_note_sanitize_level", status |-> 404]
          /\ UNCHANGED project_notes
     ELSE IF min_level_order[project_notes[note_id].sanitize_level] >= min_level_order[desired]
     THEN /\ response' = [op |-> "update_note_sanitize_level", status |-> 200]
          /\ UNCHANGED project_notes
     ELSE \E new_masked \in {bumped(project_notes[note_id].masked_body, desired)} :
            IF ~pii_gate_check(new_masked).is_safe
            THEN /\ response' = [op |-> "update_note_sanitize_level", status |-> 400]
                 /\ UNCHANGED project_notes
            ELSE /\ project_notes' = [project_notes EXCEPT ![note_id] =
                        [@ EXCEPT !.masked_body = new_masked, !.sanitize_level = desired,
                                  !.ingested = None]]
                 /\ response' = [op |-> "update_note_sanitize_level", status |-> 200]
  /\ UNCHANGED <<probe, documents, project_sources, project, knox_reports, env, ai_jobs, handlers,
                 rate_limit_state, now>>

\* re_sanitize_document after its pipeline: a normal result is raised to the
\* requested strict level, and to paranoid with both uses denied when the
\* strict text fails the gate; every other result keeps both uses allowed
forced_strict(normalized_text, masked_text) ==
  IF pii_gate_check(masked_text).is_safe
  THEN [masked_text |-> masked_text, sanitize_level |-> "strict",
        usage_restrictions |-> UR_ALLOWED]
  ELSE [masked_text |-> mask_text(normalized_text, "paranoid"), sanitize_level |-> "paranoid",
        usage_restrictions |-> UR_DENIED]

re_sanitized(normalized_text, level, r) ==
  IF level = "strict" /\ r.sanitize_level = "normal"
  THEN forced_strict(normalized_text, mask_text(normalized_text, "strict"))
  ELSE [masked_text |-> r.masked_text, sanitize_level |-> r.sanitize_level,
        usage_restrictions |-> UR_ALLOWED]

\* PUT /api/projects/{project_id}/documents/{document_id}/sanitize
re_sanitize_document(document_id, level) ==
  /\ IF document_id \notin DOMAIN documents
     THEN /\ response' = [op |-> "re_sanitize_document", status |-> 404]
          /\ UNCHANGED documents
     ELSE \E r \in {re_sanitized(normalize_text(documents[document_id].file_text), level,
                                 ProgressiveSanitize(
                                   normalize_text(documents[document_id].file_text)))} :
            /\ documents' = [documents EXCEPT ![document_id] =
                   [@ EXCEPT !.masked_text = r.masked_text,
                             !.sanitize_level = r.sanitize_level,
                             !.usage_restrictions = r.usage_restrictions,
                             !.ingested = None]]
            /\ response' = [op |-> "re_sanitize_document", status |-> 200]
  /\ UNCHANGED <<probe, project_notes, project_sources, project, knox_reports, env, ai_jobs, handlers,
                 rate_limit_state, now>>

\* texts that the pipeline stores at normal, at strict and at paranoid
LevelTexts == {Str("ab"), Str("123456789"), <<"-", "@", "1", ".", "c">>}
BumpLevels == {"strict", "paranoid"}

InitLevels ==
  /\ probe = NoProbe
  /\ documents = <<>> /\ project_notes = <<>> /\ project_sources = <<>>
  /\ project = NoProject /\ knox_reports = <<>> /\ env = NoEnv
  /\ response = NoResponse
  /\ ai_jobs = <<>> /\ handlers = <<>>
  /\ rate_limit_state = NoHits /\ now = 0

NextLevels ==
  \/ \E t \in LevelTexts : upload_document(t)
  \/ \E d \in 1..MaxDocuments, t \in LevelTexts : update_document(d, t)
  \/ \E t \in LevelTexts : create_note(t)
  \/ \E n \in 1..MaxNotes, t \in LevelTexts : update_project_note(n, t)
  \/ \E t \in LevelTexts : create_project_from_feed(t)
  \/ \E d \in 1..MaxDocuments, level \in BumpLevels : update_document_sanitize_level(d, level)
  \/ \E n \in 1..MaxNotes, level \in BumpLevels : update_note_sanitize_level(n, level)
  \/ \E d \in 1..MaxDocuments, level \in BumpLevels : re_sanitize_document(d, level)

SpecLevels == InitLevels /\ [][NextLevels]_vars

\* C15: after any sequence of ingestion, edit, re-sanitize and level-bump
\* operations every document and note whose sanitize_level is paranoid has
\* usage_restrictions with ai_allowed = false and export_allowed = false.
C15_ParanoidIsRestricted ==
  /\ \A d \in DOMAIN documents :
       documents[d].sanitize_level = "paranoid" => documents[d].usage_restrictions = UR_DENIED
  /\ \A n \in DOMAIN project_notes :
       project_notes[n].sanitize_level = "paranoid"
         => project_notes[n].usage_restrictions = UR_DENIED

\* the lowest level at which the masked text of a raw text passes the gate,
\* paranoid when neither normal nor strict masking passes
lowest_passing_level(raw_text) ==
  IF pii_gate_check(mask_text(normalize_text(raw_text), "normal")).is_safe THEN "normal"
  ELSE IF pii_gate_check(mask_text(normalize_text(raw_text), "strict")).is_safe THEN "strict"
  ELSE "paranoid"

\* C16: every ingestion path stores an item at the lowest level whose masked
\* text passes pii_gate_check: at strict only if normal masking failed the
\* gate, and at paranoid only if normal and strict masking both failed it.
C16_LowestPassingLevel ==
  /\ \A d \in DOMAIN documents :
       documents[d].ingested # None
         => documents[d].sanitize_level = lowest_passing_level(documents[d].ingested[1])
  /\ \A n \in DOMAIN project_notes :
       project_notes[n].ingested # None
         => project_notes[n].sanitize_level = lowest_passing_level(project_notes[n].ingested[1])

\* ---------------------------------------------------------------------------
\* Schema mismatch of the external compiler's response
\* ---------------------------------------------------------------------------

\* the compile response of a call whose answer failed KnoxLLMResponse
\* validation in compile_remote
schema_mismatch_response ==
  /\ response.op \in CompileOps
  /\ response.sent # None
  /\ \E k \in DOMAIN response.reasons :
       response.reasons[k] = Str("llm_response_schema_validation_failed")

\* C17: when the external compiler's response does not match the
\* StructuredResult schema, the compile response carries error_code
\* SCHEMA_VALIDATION_ERROR, not REMOTE_ERROR, and no report is persisted.
C17_SchemaMismatchCode ==
  schema_mismatch_response =>
    /\ response.error_code = "SCHEMA_VALIDATION_ERROR"
    /\ ~response.inserted

\* ---------------------------------------------------------------------------
\* Background compile jobs
\* ---------------------------------------------------------------------------

MaxJobs == 2

ASYNC_JOBS_ENABLED(e) == e.ASYNC_JOBS = "1"

job_endpoint ==
  [fortknox_compile |-> "compile_fortknox_report",
   fortknox_compile_langchain |-> "compile_fortknox_report_langchain"]

\* a row of ai_jobs. json_body is the argument of the background task; calls
\* counts the external compiler calls made for the job
AiJob(id, kind, request) ==
  [id |-> id, kind |-> kind, status |-> "queued", progress |-> 0,
   project_id |-> request.project_id, error_code |-> None, error_detail |-> None,
   result |-> None, json_body |-> request, calls |-> 0]

\* POST /api/fortknox/compile/jobs and /api/fortknox/compile/langchain/jobs:
\* 429 from the rate limiter, 409 unless ASYNC_JOBS=1, else a queued job and
\* a background task
create_job(kind, request) ==
  /\ response.op = "none"
  /\ Len(ai_jobs) < MaxJobs
  /\ rate_limit_state' = rate_limit(env, rate_limit_state, auth_user, now).state
  /\ IF ~rate_limit(env, rate_limit_state, auth_user, now).admitted
     THEN /\ response' = [op |-> kind, status |-> 429]
          /\ UNCHANGED ai_jobs
     ELSE IF ~ASYNC_JOBS_ENABLED(env)
     THEN /\ response' = [op |-> kind, status |-> 409]
          /\ UNCHANGED ai_jobs
     ELSE /\ ai_jobs' = Append(ai_jobs, AiJob(Len(ai_jobs) + 1, kind, request))
          /\ response' = [op |-> kind, status |-> 202]
  /\ UNCHANGED <<probe, documents, project_notes, project_sources, project, knox_reports,
                 env, handlers, now>>

compile_fortknox_report_job(request) == create_job("fortknox_compile", request)

compile_fortknox_report_langchain_job(request) ==
  create_job("fortknox_compile_langchain", request)

\* the seconds the handler spent waiting for the external compiler: the
\* whole REQUEST_TIMEOUT when the call timed out
handler_waited(r) ==
  IF \E k \in DOMAIN r.reasons : r.reasons[k] = Str("timeout")
  THEN REQUEST_TIMEOUT(r.env) ELSE 0

\* _run_job_http_post() up to the request: the job is marked running and the
\* request reaches the compile handler, which runs to its end
run_job_http_post(job_id) ==
  /\ job_id \in DOMAIN ai_jobs
  /\ compile_pipeline(job_endpoint[ai_jobs[job_id].kind], ai_jobs[job_id].json_body, job_id)

\* what requests.post(url, timeout=180) ends in when the handler answers
\* after `waited` seconds: requests.Timeout if the answer comes later than
\* the timeout, either of the two if both expire together
post_outcomes(waited) ==
  IF waited > JOB_POST_TIMEOUT THEN {"timeout"}
  ELSE IF waited = JOB_POST_TIMEOUT THEN {"timeout", "answer"}
  ELSE {"answer"}

\* f"HTTP_{r.status_code}" for the answers without an error_code
http_error_code == [status \in {429} |-> "HTTP_429"]

\* a runner that puts the job back in the queue
requeued_job(job, r, outcome) == [job EXCEPT !.status = "queued", !.progress = 0]

\* the row _run_job_http_post() leaves for an outcome of its request
finished_job(job, r, outcome) ==
  IF outcome = "timeout"
  THEN [job EXCEPT !.status = "failed", !.progress = 100,
                   !.error_code = Some("JOB_EXCEPTION"),
                   !.error_detail = Some(Str("ReadTimeout"))]
  ELSE IF r.status >= 200 /\ r.status < 300
  THEN [job EXCEPT !.status = "succeeded", !.progress = 100,
                   !.result = Some([http_status |-> r.status, id |-> r.report[1].id])]
  ELSE [job EXCEPT !.status = "failed", !.progress = 100,
                   !.error_code = Some(IF r.error_code # "" THEN r.error_code
                                       ELSE http_error_code[r.status]),
                   !.error_detail = Some(IF r.detail # <<>> THEN r.detail
                                         ELSE Str("Job failed"))]

\* _run_job_http_post() from the return of requests.post
run_job_http_post_returns(job_id) ==
  /\ job_id \in DOMAIN ai_jobs
  /\ ai_jobs[job_id].status = "running"
  /\ response.op \in {"compile_fortknox_report", "compile_fortknox_report_langchain"}
  /\ \E outcome \in post_outcomes(handler_waited(response)) :
       ai_jobs' = [ai_jobs EXCEPT ![job_id] = finished_job(@, response, outcome)]
  /\ response' = NoResponse
  /\ UNCHANGED <<probe, documents, project_notes, project_sources, project, knox_reports,
                 env, handlers, rate_limit_state, now>>

\* the settings of a server that takes jobs, with a live compiler and the
\* default FORTKNOX_REMOTE_TIMEOUT or one of 60 seconds, and of a server in
\* test mode with ASYNC_JOBS off
JobEnvConfigs ==
  { [FORTKNOX_TESTMODE |-> "0", FORTKNOX_REMOTE_URL |-> "http://knox", FORTKNOX_ENGINE_ID |-> "",
     FORTKNOX_PIPELINE |-> "langchain", RATE_LIMITS |-> "0", FORTKNOX_REMOTE_TIMEOUT |-> t, ASYNC_JOBS |-> "1"] :
       t \in {"", "60"} }
  \cup { [FORTKNOX_TESTMODE |-> "1", FORTKNOX_REMOTE_URL |-> "", FORTKNOX_ENGINE_ID |-> "",
          FORTKNOX_PIPELINE |-> "default", RATE_LIMITS |-> "0", FORTKNOX_REMOTE_TIMEOUT |-> "", ASYNC_JOBS |-> "0"] }

\* requests under the internal policy, for the project and for a project
\* that does not exist
InternalRequests ==
  { KnoxCompileRequest(1, "internal", None, FALSE), KnoxCompileRequest(2, "internal", None, FALSE) }

\* requests under each policy, and one for a project that does not exist
PolicyRequests ==
  { KnoxCompileRequest(1, "internal", None, FALSE), KnoxCompileRequest(1, "external", None, FALSE),
    KnoxCompileRequest(2, "internal", None, FALSE) }

InitJobs ==
  /\ probe = NoProbe
  /\ \E db \in {x \in Inventories : Len(x.documents) = 0} :
       /\ project = db.project
       /\ documents = db.documents
       /\ project_notes = db.project_notes
       /\ project_sources = db.project_sources
  /\ knox_reports = <<>>
  /\ env \in JobEnvConfigs
  /\ response = NoResponse
  /\ ai_jobs = <<>> /\ handlers = <<>>
  /\ rate_limit_state = NoHits /\ now = 0

NextJobs ==
  \/ \E request \in InternalRequests : compile_fortknox_report_job(request)
  \/ \E request \in InternalRequests : compile_fortknox_report_langchain_job(request)
  \/ \E job_id \in 1..MaxJobs : run_job_http_post(job_id)
  \/ \E job_id \in 1..MaxJobs : run_job_http_post_returns(job_id)
  \/ receive_response

SpecJobs == InitJobs /\ [][NextJobs]_vars

\* the job whose request the compile handler has answered
answered_job(job) ==
  /\ job.status = "running"
  /\ response.op \in CompileOps

\* C18: if the external compiler call made on behalf of a background compile
\* job times out, the compile surfaces REMOTE_ERROR, the job record ends in
\* status failed carrying that error code, no report is persisted for the
\* job and the external compiler is not called again for that job.
C18_TimedOutJob ==
  [][\A job_id \in DOMAIN ai_jobs :
       (/\ answered_job(ai_jobs[job_id])
        /\ handler_waited(response) > 0
        /\ ai_jobs'[job_id].status # "running")
       => /\ response.error_code = "REMOTE_ERROR"
          /\ knox_reports' = knox_reports
          /\ ai_jobs'[job_id].status = "failed"
          /\ ai_jobs'[job_id].error_code = Some("REMOTE_ERROR")
          /\ ai_jobs'[job_id].calls = 1]_vars

\* ---------------------------------------------------------------------------
\* The life of a stored report
\* ---------------------------------------------------------------------------

\* the projects table without the project: no request names project 0
no_project == [id |-> 0, name |-> "", tags |-> <<>>, status |-> ""]

\* DELETE /api/projects/{project_id}: 404 for a project that is not there,
\* 500 with nothing deleted when a file of the project stays on disk, else
\* the rows of the project in every table and the project itself are deleted
delete_project(project_id) ==
  /\ response.op = "none"
  /\ IF project_id # project.id
     THEN /\ response' = [op |-> "delete_project", status |-> 404]
          /\ UNCHANGED <<documents, project_notes, project_sources, project, knox_reports>>
     ELSE \E orphans \in {FALSE} \cup {Len(documents) > 0} :
            IF orphans
            THEN /\ response' = [op |-> "delete_project", status |-> 500]
                 /\ UNCHANGED <<documents, project_notes, project_sources, project,
                                knox_reports>>
            ELSE /\ documents' = <<>>
                 /\ project_sources' = <<>>
                 /\ project_notes' = <<>>
                 /\ knox_reports' = SelectSeq(knox_reports,
                                              LAMBDA row : row.project_id # project_id)
                 /\ project' = no_project
                 /\ response' = [op |-> "delete_project", status |-> 204]
  /\ UNCHANGED <<probe, env, ai_jobs, handlers, rate_limit_state, now>>

\* the document a report is saved as
report_document(id, report, md) ==
  [id |-> id, masked_text |-> md, sanitize_level |-> "strict",
   usage_restrictions |-> [ai_allowed |-> TRUE, export_allowed |-> TRUE,
                           fortknox_excluded |-> TRUE],
   document_metadata |-> [source_type |-> "fortknox_report", knox_report_id |-> report.id,
                          policy_id |-> report.policy_id,
                          policy_version |-> report.policy_version,
                          template_id |-> report.template_id,
                          input_fingerprint |-> report.input_fingerprint],
   created_at |-> id, file_text |-> md, ingested |-> None]

saved_as_document(doc, report) ==
  /\ is_fortknox_report(doc.document_metadata)
  /\ doc.document_metadata.knox_report_id = report.id

\* POST /api/projects/{project_id}/documents/from-knox-report: 404 without
\* the project or the report, 409 for a report without text, the document
\* stored earlier for the report if there is one, else a new document
create_document_from_knox_report(project_id, report_id) ==
  /\ response.op = "none"
  /\ LET found == SelectSeq(knox_reports, LAMBDA row : /\ row.id = report_id
                                                       /\ row.project_id = project_id)
         reply(status) == [op |-> "create_document_from_knox_report", status |-> status]
     IN IF project_id # project.id \/ Len(found) = 0
        THEN response' = reply(404) /\ UNCHANGED documents
        ELSE IF Len(Strip(found[1].rendered_markdown)) = 0
        THEN response' = reply(409) /\ UNCHANGED documents
        ELSE IF \E k \in DOMAIN documents : saved_as_document(documents[k], found[1])
        THEN response' = reply(201) /\ UNCHANGED documents
        ELSE /\ documents' = Append(documents,
                                    report_document(Len(documents) + 1, found[1],
                                                    Strip(found[1].rendered_markdown)))
             /\ response' = reply(201)
  /\ UNCHANGED <<probe, project_notes, project_sources, project, knox_reports, env, ai_jobs,
                 handlers, rate_limit_state, now>>

InitReports == InitCompile

NextReports ==
  \/ \E request \in PolicyRequests : compile_fortknox_report(request)
  \/ \E request \in PolicyRequests : compile_fortknox_report_langchain(request)
  \/ \E project_id \in 1..2 : delete_project(project_id)
  \/ \E project_id \in 1..2, report_id \in 1..MaxReports :
       create_document_from_knox_report(project_id, report_id)
  \/ receive_response

SpecReports == InitReports /\ [][NextReports]_vars

\* C19: once stored, a report is never modified and is removed only by
\* deletion of its parent project: while the project exists, every stored
\* report is still stored with the same field values after any operation.
C19_ReportsImmutable ==
  [][\A k \in DOMAIN knox_reports :
       project'.id = knox_reports[k].project_id
       => /\ k \in DOMAIN knox_reports'
          /\ knox_reports'[k] = knox_reports[k]]_vars

\* a report that is stored beside a later report and has been saved as a
\* document
C19_ReportKept ==
  /\ Len(knox_reports) = 2
  /\ project.id = knox_reports[1].project_id
  /\ \E k \in DOMAIN documents : saved_as_document(documents[k], knox_reports[1])

\* ---------------------------------------------------------------------------
\* Compile requests served side by side
\* ---------------------------------------------------------------------------

MaxHandlers == 2

\* a compile request being handled: the step it has reached, what it has
\* computed so far and, at the end, its answer
Handler(op, request) ==
  [op |-> op, request |-> request, pc |-> "gated", pack |-> None, engine_id |-> "",
   missed |-> FALSE, llm |-> None, status |-> 0, error_code |-> "", report |-> None]

finished(h, status, error_code) ==
  [h EXCEPT !.pc = "done", !.status = status, !.error_code = error_code]

\* steps 1 and 2 on the selected pack
gated(h, selected) ==
  IF selected.empty \/ total_inputs(selected.pack) = 0
  THEN finished(h, 400, "EMPTY_INPUT_SET")
  ELSE IF ~input_gate_of[selected.pack].pass
  THEN finished(h, 400, "INPUT_GATE_FAILED")
  ELSE [h EXCEPT !.pack = Some(selected.pack),
                 !.engine_id = handler_engine_id(h.op, env)]

\* the requests in progress; each worker process of the server runs one
\* handler at a time, from its first statement to its last
in_progress == {k \in DOMAIN handlers : handlers[k].pc # "done"}

\* a worker takes a request: pack, selection and input gate
begin_compile(op, request) ==
  /\ Len(handlers) < MaxHandlers
  /\ Cardinality(in_progress) < int(Str(env.WEB_CONCURRENCY))
  /\ handlers' = Append(handlers,
                        IF request.project_id # project.id
                        THEN finished(Handler(op, request), 500, "INTERNAL_ERROR")
                        ELSE gated(Handler(op, request), request_pack(request, get_db)))
  /\ UNCHANGED <<probe, documents, project_notes, project_sources, project, knox_reports, env,
                 response, ai_jobs, rate_limit_state, now>>

\* steps 3 and 4: the idempotency query and the offline exit
looked_up(h, existing) ==
  IF Len(existing) > 0
  THEN [finished(h, 201, "") EXCEPT
          !.report = Some(IF h.op = "compile_fortknox_report_langchain"
                          THEN existing[Len(existing)] ELSE existing[1])]
  ELSE IF h.op = "compile_fortknox_report" /\ fortknox_offline(env)
  THEN finished([h EXCEPT !.missed = TRUE], 503, "FORTKNOX_OFFLINE")
  ELSE [h EXCEPT !.missed = TRUE, !.pc = "missed"]

lookup(k) ==
  /\ k \in DOMAIN handlers
  /\ handlers[k].pc = "gated"
  /\ handlers' = [handlers EXCEPT ![k] =
                    looked_up(@, existing_reports(knox_reports, @.request,
                                                  @.pack[1].input_fingerprint, @.engine_id))]
  /\ UNCHANGED <<probe, documents, project_notes, project_sources, project, knox_reports, env,
                 response, ai_jobs, rate_limit_state, now>>

\* step 5: the call of the external compiler
called(h, outcome) ==
  IF outcome.error_code = "LANGCHAIN_DISABLED" THEN finished(h, 409, "LANGCHAIN_DISABLED")
  ELSE IF outcome.error_code # "" THEN finished(h, 500, "REMOTE_ERROR")
  ELSE [h EXCEPT !.pc = "called", !.llm = outcome.llm]

call_compiler(k) ==
  /\ k \in DOMAIN handlers
  /\ handlers[k].pc = "missed"
  /\ \E outcome \in external_compiler(handlers[k].op, handlers[k].pack[1].policy, env) :
       handlers' = [handlers EXCEPT ![k] = called(@, outcome)]
  /\ UNCHANGED <<probe, documents, project_notes, project_sources, project, knox_reports, env,
                 response, ai_jobs, rate_limit_state, now>>

\* a store with a unique key: the row stored under the key is returned
stored_once(reports, h, verdict) ==
  IF Len(existing_reports(reports, h.request, h.pack[1].input_fingerprint, h.engine_id)) > 0
  THEN reports
  ELSE Append(reports, KnoxReport(Len(reports) + 1, h.request, h.pack[1], h.engine_id,
                                  verdict.rendered_markdown, backend_of(h.op, env)))

\* step 8: db.add(db_report), db.commit()
stored(reports, h, verdict) ==
  Append(reports, KnoxReport(Len(reports) + 1, h.request, h.pack[1], h.engine_id,
                             verdict.rendered_markdown, backend_of(h.op, env)))

\* the newest row under the key of h
own_row(reports, h) ==
  existing_reports(reports, h.request, h.pack[1].input_fingerprint, h.engine_id)
    [Len(existing_reports(reports, h.request, h.pack[1].input_fingerprint, h.engine_id))]

\* steps 6 to 8: the output gates and the insert
store_with(k, verdict) ==
  IF verdict.error_code # ""
  THEN /\ handlers' = [handlers EXCEPT ![k] = finished(@, 400, verdict.error_code)]
       /\ UNCHANGED knox_reports
  ELSE /\ knox_reports' = stored(knox_reports, handlers[k], verdict)
       /\ handlers' = [handlers EXCEPT ![k] =
                         [finished(@, 201, "") EXCEPT
                            !.report = Some(own_row(knox_reports', handlers[k]))]]

store_report(k) ==
  /\ k \in DOMAIN handlers
  /\ handlers[k].pc = "called"
  /\ store_with(k, output_stage_of[<<handlers[k].llm[1], handlers[k].pack[1],
                                      handlers[k].op = "compile_fortknox_report">>])
  /\ UNCHANGED <<probe, documents, project_notes, project_sources, project, env, response,
                 ai_jobs, rate_limit_state, now>>

\* a server of one worker process and servers of two, with a live compiler
\* and in test mode
RaceEnvConfigs ==
  { [FORTKNOX_TESTMODE |-> "0", FORTKNOX_REMOTE_URL |-> "http://knox", FORTKNOX_ENGINE_ID |-> "",
     FORTKNOX_PIPELINE |-> "langchain", RATE_LIMITS |-> "0", WEB_CONCURRENCY |-> w] : w \in {"1", "2"} }
  \cup { [FORTKNOX_TESTMODE |-> "1", FORTKNOX_REMOTE_URL |-> "", FORTKNOX_ENGINE_ID |-> "",
          FORTKNOX_PIPELINE |-> "default", RATE_LIMITS |-> "0", WEB_CONCURRENCY |-> "2"] }

InitRace ==
  /\ probe = NoProbe
  /\ \E db \in Inventories :
       /\ project = db.project
       /\ documents = db.documents
       /\ project_notes = db.project_notes
       /\ project_sources = db.project_sources
  /\ knox_reports = <<>>
  /\ env \in RaceEnvConfigs
  /\ response = NoResponse
  /\ ai_jobs = <<>> /\ handlers = <<>>
  /\ rate_limit_state = NoHits /\ now = 0

NextRace ==
  \/ \E op \in CompileOps, request \in InternalRequests : begin_compile(op, request)
  \/ \E k \in 1..MaxHandlers : lookup(k)
  \/ \E k \in 1..MaxHandlers : call_compiler(k)
  \/ \E k \in 1..MaxHandlers : store_report(k)

SpecRace == InitRace /\ [][NextRace]_vars

handler_key(h) ==
  [project_id |-> h.request.project_id, policy_id |-> h.request.policy_id,
   template_id |-> h.request.template_id, engine_id |-> h.engine_id,
   input_fingerprint |-> h.pack[1].input_fingerprint]

\* a request that passed the input gate, missed the idempotency lookup,
\* called the external compiler and was answered 201
compiled(h) ==
  /\ h.pc = "done" /\ h.status = 201
  /\ h.pack # None /\ h.missed /\ h.llm # None

\* C20: compiles for the same idempotency key are not serialized: two
\* requests with the same key can both pass the input gate, both miss the
\* idempotency lookup and both call the external compiler, and then each
\* stores a report row of its own under that key.
C20_EachStoresItsOwn ==
  \A i, j \in DOMAIN handlers :
    (/\ i # j /\ compiled(handlers[i]) /\ compiled(handlers[j])
     /\ handler_key(handlers[i]) = handler_key(handlers[j]))
    => /\ handlers[i].report[1].id # handlers[j].report[1].id
       /\ \E a, b \in DOMAIN knox_reports :
            /\ a # b
            /\ report_key(knox_reports[a]) = handler_key(handlers[i])
            /\ report_key(knox_reports[b]) = handler_key(handlers[i])

\* two requests with the same key were compiled and two rows are stored
\* under the key
C20_TwoRowsOneKey ==
  /\ Len(handlers) = 2
  /\ compiled(handlers[1]) /\ compiled(handlers[2])
  /\ handler_key(handlers[1]) = handler_key(handlers[2])
  /\ Len(knox_reports) = 2
  /\ report_key(knox_reports[1]) = report_key(knox_reports[2])

\* ---------------------------------------------------------------------------
\* The rate limiter under concurrent requests
\* ---------------------------------------------------------------------------

MaxRequests == 3
TickSeconds == 30
MaxTime == 90

\* the dependency of a request, run on a thread of the pool: the time it
\* read, the hits it has filtered and its outcome
RateLimitCall(username, t) ==
  [op |-> "rate_limit", username |-> username, pc |-> "begun", t |-> t, hits |-> <<>>,
   status |-> 0]

\* now = time.time()
rate_limit_begin(username) ==
  /\ Len(handlers) < MaxRequests
  /\ handlers' = Append(handlers,
                        IF RATE_LIMITS_ENABLED(env) THEN RateLimitCall(username, now)
                        ELSE [RateLimitCall(username, now) EXCEPT !.pc = "done",
                                                                  !.status = 200])
  /\ UNCHANGED <<probe, documents, project_notes, project_sources, project, knox_reports, env,
                 response, ai_jobs, rate_limit_state, now>>

\* hits = _rate_limit_state.get(key, []) and the filter on the window
rate_limit_read(k) ==
  /\ k \in DOMAIN handlers
  /\ handlers[k].pc = "begun"
  /\ handlers' = [handlers EXCEPT ![k].pc = "read",
                                  ![k].hits = recent_hits(rate_limit_state[handlers[k].username],
                                                          handlers[k].t, WINDOW_SECONDS)]
  /\ UNCHANGED <<probe, documents, project_notes, project_sources, project, knox_reports, env,
                 response, ai_jobs, rate_limit_state, now>>

\* the comparison with the limit: 429, or hits.append(now) and the store
rate_limit_decide(k) ==
  /\ k \in DOMAIN handlers
  /\ handlers[k].pc = "read"
  /\ IF Len(handlers[k].hits) >= per_minute_limit(env)
     THEN /\ handlers' = [handlers EXCEPT ![k].pc = "done", ![k].status = 429]
          /\ UNCHANGED rate_limit_state
     ELSE /\ handlers' = [handlers EXCEPT ![k].pc = "done", ![k].status = 200]
          /\ rate_limit_state' = [rate_limit_state EXCEPT ![handlers[k].username] =
                                    Append(handlers[k].hits, handlers[k].t)]
  /\ UNCHANGED <<probe, documents, project_notes, project_sources, project, knox_reports, env,
                 response, ai_jobs, now>>

\* time passes
tick ==
  /\ now < MaxTime
  /\ now' = now + TickSeconds
  /\ UNCHANGED <<probe, documents, project_notes, project_sources, project, knox_reports, env,
                 response, ai_jobs, handlers, rate_limit_state>>

\* servers with a limit of one and of two requests a minute, and with the
\* default limit
RateEnvConfigs ==
  {[NoEnv EXCEPT !.RATE_LIMITS = "1"]}
  \cup {[FORTKNOX_TESTMODE |-> "0", FORTKNOX_REMOTE_URL |-> "", FORTKNOX_ENGINE_ID |-> "",
         FORTKNOX_PIPELINE |-> "default", RATE_LIMITS |-> "1",
         RATE_LIMIT_FORTKNOX_COMPILE_PER_MIN |-> n] : n \in {"1", "2"}}

InitRate ==
  /\ probe = NoProbe
  /\ documents = <<>> /\ project_notes = <<>> /\ project_sources = <<>>
  /\ project = NoProject /\ knox_reports = <<>>
  /\ env \in RateEnvConfigs
  /\ response = NoResponse
  /\ ai_jobs = <<>> /\ handlers = <<>>
  /\ rate_limit_state = NoHits /\ now = 0

NextRate ==
  \/ \E username \in Callers : rate_limit_begin(username)
  \/ \E k \in 1..MaxRequests : rate_limit_read(k)
  \/ \E k \in 1..MaxRequests : rate_limit_decide(k)
  \/ tick

SpecRate == InitRate /\ [][NextRate]_vars

\* the requests of a user the limiter has admitted
admitted_requests(username) ==
  {k \in DOMAIN handlers : /\ handlers[k].username = username
                           /\ handlers[k].pc = "done" /\ handlers[k].status = 200}

\* C21: for each caller and under any interleaving of concurrent requests
\* the number of compile requests admitted within any 60-second window
\* never exceeds the configured per-minute limit.
C21_WindowWithinLimit ==
  \A username \in Callers : \A k \in admitted_requests(username) :
    Cardinality({j \in admitted_requests(username) :
                   /\ handlers[j].t > handlers[k].t - WINDOW_SECONDS
                   /\ handlers[j].t <= handlers[k].t}) <= per_minute_limit(env)

\* the moves of a job's status
job_status_moves ==
  {<<"queued", "running">>, <<"running", "succeeded">>, <<"running", "failed">>}

\* C22: a background job's status only ever moves queued -> running ->
\* succeeded or failed: the terminal states never change again, no job goes
\* from queued to a terminal state, none returns to queued or running, and
\* a new job starts queued.
C22_JobStatusMoves ==
  [][/\ \A job_id \in DOMAIN ai_jobs :
          /\ job_id \in DOMAIN ai_jobs'
          /\ \/ ai_jobs'[job_id].status = ai_jobs[job_id].status
             \/ <<ai_jobs[job_id].status, ai_jobs'[job_id].status>> \in job_status_moves
     /\ \A job_id \in DOMAIN ai_jobs' \ DOMAIN ai_jobs :
          ai_jobs'[job_id].status = "queued"]_vars

\* one job has succeeded and a later one has failed
C22_BothTerminals ==
  /\ Len(ai_jobs) = 2
  /\ ai_jobs[1].status = "succeeded"
  /\ ai_jobs[2].status = "failed"

\* a text of more than one word
phrase(text) == \E i \in DOMAIN text : text[i] = " "

\* the phrases the compile handles: the masked texts of the project, the
\* strings of the compiler's answers and the stored reports
handled_texts ==
  {t \in {documents[k].masked_text : k \in DOMAIN documents}
         \cup {project_notes[k].masked_body : k \in DOMAIN project_notes}
         \cup {knox_reports[k].rendered_markdown : k \in DOMAIN knox_reports}
         \cup {err.input : err \in SchemaErrors}
         \cup UNION {{a.title, a.executive_summary} : a \in LLMAnswers}
         \cup UNION {UNION {{a.themes[i].bullets[j] : j \in DOMAIN a.themes[i].bullets} :
                              i \in DOMAIN a.themes} : a \in LLMAnswers} :
     phrase(t)}

\* the strings of a job row
job_strings(job) ==
  {Str(job.error_code[k]) : k \in DOMAIN job.error_code}
  \cup {job.error_detail[k] : k \in DOMAIN job.error_detail}

\* C23: for every compile outcome the job record's result, error_code and
\* error_detail hold only metadata (ids, status, error codes) and never
\* document, note, compiler-response or report text.
C23_JobRecordIsMetadata ==
  \A job_id \in DOMAIN ai_jobs :
    /\ \A k \in DOMAIN ai_jobs[job_id].result :
         DOMAIN ai_jobs[job_id].result[k] \subseteq {"http_status", "id"}
    /\ \A s \in job_strings(ai_jobs[job_id]) : \A t \in handled_texts : ~Contains(t, s)

\* ---------------------------------------------------------------------------
\* mask_datetime applied twice
\* ---------------------------------------------------------------------------

MaxPieces == 3

\* pieces of dates, times and relative time words, and what stands between
\* them
DatetimePieces ==
  { Sv("2026-01-06"), Sv("1/2/2026"), Sv("6 maj"), Sv(" 2026"), Sv("13:24"), Sv("kl. "),
    Sv(":45"), Sv("i dag"), Sv(" ") }

\* the texts of at most MaxPieces pieces
DatetimeTexts ==
  {Flatten(ps) : ps \in UNION {[1..n -> DatetimePieces] : n \in 0..MaxPieces}}

DatetimeLevels == {"strict", "paranoid"}

InitDatetime ==
  /\ probe \in {[text |-> t, level |-> "none", masked |-> None, again |-> None] :
                  t \in DatetimeTexts}
  /\ documents = <<>> /\ project_notes = <<>> /\ project_sources = <<>>
  /\ project = NoProject /\ knox_reports = <<>> /\ env = NoEnv
  /\ response = NoResponse
  /\ ai_jobs = <<>> /\ handlers = <<>>
  /\ rate_limit_state = NoHits /\ now = 0

\* masked, stats = mask_datetime(text, level)
MaskDatetime(level) ==
  /\ probe.level = "none"
  /\ probe' = [probe EXCEPT !.level = level,
                            !.masked = Some(mask_datetime(probe.text, level))]
  /\ UNCHANGED <<documents, project_notes, project_sources, project,
                 knox_reports, env, response, ai_jobs, handlers, rate_limit_state, now>>

\* again, stats = mask_datetime(masked, level)
MaskDatetimeAgain ==
  /\ probe.masked # None /\ probe.again = None
  /\ probe' = [probe EXCEPT !.again = Some(mask_datetime(probe.masked[1].text, probe.level))]
  /\ UNCHANGED <<documents, project_notes, project_sources, project,
                 knox_reports, env, response, ai_jobs, handlers, rate_limit_state, now>>

NextDatetime ==
  \/ \E level \in DatetimeLevels : MaskDatetime(level)
  \/ MaskDatetimeAgain

SpecDatetime == InitDatetime /\ [][NextDatetime]_vars

\* C24: mask_datetime is idempotent: applying it at level L to the text
\* returned by mask_datetime(t, L) returns that text unchanged.
C24_MaskDatetimeIdempotent ==
  probe.again # None => probe.again[1].text = probe.masked[1].text

\* a text with a date and a relative time word was masked twice at the
\* paranoid level
C24_MaskedTwice ==
  /\ probe.again # None
  /\ probe.level = "paranoid"
  /\ probe.masked[1].stats.datetime_mask_count = 2
  /\ Contains(TOK.DATUM, probe.masked[1].text)
  /\ Contains(TOK.RELATIV_TID, probe.masked[1].text)

\* ---------------------------------------------------------------------------
\* Items excluded from compilation
\* ---------------------------------------------------------------------------

\* usage_restrictions['fortknox_excluded'] = exclude, commit, refresh.
\* usage_restrictions is a plain JSON column: the session writes it when the
\* attribute was assigned, which the handlers do for an empty value only; a
\* key set in the dict that was loaded is not written and the refresh
\* reads the stored value back
excluded_as(usage_restrictions, exclude) ==
  IF DOMAIN usage_restrictions = {} THEN [fortknox_excluded |-> exclude]
  ELSE usage_restrictions

\* PUT /api/projects/{project_id}/documents/{document_id}/exclude-from-fortknox
exclude_document_from_fortknox(document_id, exclude) ==
  /\ response.op = "none"
  /\ IF document_id \notin DOMAIN documents
     THEN /\ response' = [op |-> "exclude_document_from_fortknox", status |-> 404]
          /\ UNCHANGED documents
     ELSE /\ documents' = [documents EXCEPT ![document_id].usage_restrictions =
                             excluded_as(@, exclude)]
          /\ response' = [op |-> "exclude_document_from_fortknox", status |-> 200]
  /\ UNCHANGED <<probe, project_notes, project_sources, project, knox_reports, env, ai_jobs,
                 handlers, rate_limit_state, now>>

\* PUT /api/projects/{project_id}/notes/{note_id}/exclude-from-fortknox
exclude_note_from_fortknox(note_id, exclude) ==
  /\ response.op = "none"
  /\ IF note_id \notin DOMAIN project_notes
     THEN /\ response' = [op |-> "exclude_note_from_fortknox", status |-> 404]
          /\ UNCHANGED project_notes
     ELSE /\ project_notes' = [project_notes EXCEPT ![note_id].usage_restrictions =
                                 excluded_as(@, exclude)]
          /\ response' = [op |-> "exclude_note_from_fortknox", status |-> 200]
  /\ UNCHANGED <<probe, documents, project_sources, project, knox_reports, env, ai_jobs,
                 handlers, rate_limit_state, now>>

\* a server in test mode and one with a live compiler
ExcludeEnvConfigs == {e \in EnvConfigs : e.FORTKNOX_TESTMODE = "1" \/ e.FORTKNOX_PIPELINE = "langchain"}

InitExclude ==
  /\ probe = NoProbe
  /\ \E db \in Inventories :
       /\ project = db.project
       /\ documents = db.documents
       /\ project_notes = db.project_notes
       /\ project_sources = db.project_sources
  /\ knox_reports = <<>>
  /\ env \in ExcludeEnvConfigs
  /\ response = NoResponse
  /\ ai_jobs = <<>> /\ handlers = <<>>
  /\ rate_limit_state = NoHits /\ now = 0

NextExclude ==
  \/ \E request \in InternalRequests : compile_fortknox_report(request)
  \/ \E request \in InternalRequests : compile_fortknox_report_langchain(request)
  \/ \E report_id \in 1..MaxReports : create_document_from_knox_report(1, report_id)
  \/ \E document_id \in 1..2, exclude \in BOOLEAN :
       exclude_document_from_fortknox(document_id, exclude)
  \/ \E note_id \in 1..2, exclude \in BOOLEAN : exclude_note_from_fortknox(note_id, exclude)
  \/ receive_response

SpecExclude == InitExclude /\ [][NextExclude]_vars

\* the stored row an item of a pack was built from is neither flagged as
\* excluded nor a document made from a report
may_be_compiled(item) ==
  IF item[1] = "document"
  THEN \A k \in DOMAIN documents :
         documents[k].id = item[2]
           => /\ ~fortknox_excluded(documents[k].usage_restrictions)
              /\ ~is_fortknox_report(documents[k].document_metadata)
  ELSE \A k \in DOMAIN project_notes :
         project_notes[k].id = item[2] => ~fortknox_excluded(project_notes[k].usage_restrictions)

\* C25: after any sequence of operations no input pack contains a document
\* that was created from a compiled report, nor a document or note that is
\* flagged as excluded from compilation.
C25_PackLeavesOutExcluded ==
  (response.op \in CompileOps /\ response.included # None)
    => \A item \in response.included[1] : may_be_compiled(item)

\* a pack was built and compiled while a document made from a report and a
\* flagged note are stored
C25_CompiledBesideExcluded ==
  /\ response.op \in CompileOps
  /\ response.status = 201
  /\ response.included # None /\ response.included[1] # {}
  /\ \E k \in DOMAIN documents : is_fortknox_report(documents[k].document_metadata)
  /\ \E k \in DOMAIN project_notes : fortknox_excluded(project_notes[k].usage_restrictions)

\* the stored level after a call that asked for the level requested is at
\* least the level requested and at least the level stored before
level_kept(before, after, requested) ==
  /\ min_level_order[after.sanitize_level] >= min_level_order[requested]
  /\ min_level_order[after.sanitize_level] >= min_level_order[before.sanitize_level]

\* C26: after a successful call that requests sanitize level L
\* (re_sanitize_document, update_document_sanitize_level or
\* update_note_sanitize_level) the item's stored sanitize_level is at least L
\* in the order normal < strict < paranoid, and never lower than it was
\* before the call.
C26_LevelAtLeastRequested ==
  [][\A level \in BumpLevels :
       /\ \A d \in 1..MaxDocuments :
            ((re_sanitize_document(d, level) \/ update_document_sanitize_level(d, level))
               /\ response'.status = 200)
              => level_kept(documents[d], documents'[d], level)
       /\ \A n \in 1..MaxNotes :
            (update_note_sanitize_level(n, level) /\ response'.status = 200)
              => level_kept(project_notes[n], project_notes'[n], level)]_vars

\* ---------------------------------------------------------------------------
\* Edits of a document that is excluded from compilation
\* ---------------------------------------------------------------------------

\* the reports a live compiler's answers left for the project that holds a
\* source and no document, one stored by each compile handler
StoredReports(db, e) ==
  << KnoxReport(1, KnoxCompileRequest(1, "internal", None, FALSE),
                build_knox_input_pack(1, get_policy("internal"), "weekly", db),
                handler_engine_id("compile_fortknox_report", e), Sv("# T~n~nab"), "remote"),
     KnoxReport(2, KnoxCompileRequest(1, "internal", None, FALSE),
                build_knox_input_pack(1, get_policy("internal"), "weekly", db),
                handler_engine_id("compile_fortknox_report_langchain", e),
                Sv("# T~n~n123456789"), "langchain") >>

\* the documents that follow are saved from the reports
InitFlags ==
  /\ probe = NoProbe
  /\ \E db \in {x \in Inventories : Len(x.documents) = 0} :
       /\ project = db.project
       /\ documents = db.documents
       /\ project_notes = db.project_notes
       /\ project_sources = db.project_sources
  /\ env \in {e \in EnvConfigs : e.FORTKNOX_PIPELINE = "langchain"}
  /\ knox_reports = StoredReports(get_db, env)
  /\ response = NoResponse
  /\ ai_jobs = <<>> /\ handlers = <<>>
  /\ rate_limit_state = NoHits /\ now = 0

NextFlags ==
  \/ \E report_id \in 1..MaxReports : create_document_from_knox_report(1, report_id)
  \/ \E document_id \in 1..MaxReports, exclude \in BOOLEAN :
       exclude_document_from_fortknox(document_id, exclude)
  \/ \E document_id \in 1..MaxReports, t \in LevelTexts : update_document(document_id, t)
  \/ \E document_id \in 1..MaxReports, level \in BumpLevels :
       re_sanitize_document(document_id, level)
  \/ receive_response

SpecFlags == InitFlags /\ [][NextFlags]_vars

\* C27: a document's fortknox_excluded flag changes only through the
\* exclude-from-fortknox endpoint: editing or re-sanitizing the document
\* leaves the flag unchanged.
C27_FlagChangedByExcludeOnly ==
  [][\A d \in DOMAIN documents :
       (/\ d \in DOMAIN documents'
        /\ fortknox_excluded(documents'[d].usage_restrictions)
             # fortknox_excluded(documents[d].usage_restrictions))
         => response'.op = "exclude_document_from_fortknox"]_vars

\* ---------------------------------------------------------------------------
\* Requests whose selection removes nothing
\* ---------------------------------------------------------------------------

\* requests on the project that name no item: snapshot_mode with no
\* selection, and a selection with empty include and exclude lists
KeepAllRequests ==
  {KnoxCompileRequest(project.id, p, None, TRUE) : p \in PolicyIds}
  \cup {KnoxCompileRequest(project.id, p, Some([include |-> <<>>, exclude |-> <<>>]), FALSE) :
          p \in PolicyIds}

\* the same request with no selection
plain_request(request) ==
  KnoxCompileRequest(request.project_id, request.policy_id, None, FALSE)

\* what steps 1 and 1.2 of the handlers leave of a request: the
\* EMPTY_INPUT_SET exit, or the manifest and the fingerprint the report is
\* stored and looked up under
selected_inputs(request, db) ==
  IF request_pack(request, db).empty \/ total_inputs(request_pack(request, db).pack) = 0
  THEN [error_code |-> "EMPTY_INPUT_SET"]
  ELSE [error_code |-> "",
        input_manifest |-> request_pack(request, db).pack.input_manifest,
        input_fingerprint |-> request_pack(request, db).pack.input_fingerprint]

\* C28: for the same project state, a compile whose request carries a
\* selection that removes nothing (or snapshot_mode with no selection) has
\* the same manifest, in the same order, and the same fingerprint as a
\* compile with no selection, so both requests map to the same stored report
C28_KeepAllSelectionSamePack ==
  \A request \in KeepAllRequests :
    selected_inputs(request, get_db) = selected_inputs(plain_request(request), get_db)

\* ---------------------------------------------------------------------------
\* Background compile jobs on a server that limits the compile rate
\* ---------------------------------------------------------------------------

\* servers in test mode that take jobs, with a limit of one and of two
\* compile requests a minute
JobRateEnvConfigs ==
  { [FORTKNOX_TESTMODE |-> "1", FORTKNOX_REMOTE_URL |-> "", FORTKNOX_ENGINE_ID |-> "",
     FORTKNOX_PIPELINE |-> "default", RATE_LIMITS |-> "1",
     RATE_LIMIT_FORTKNOX_COMPILE_PER_MIN |-> n, FORTKNOX_REMOTE_TIMEOUT |-> "",
     ASYNC_JOBS |-> "1"] : n \in {"1", "2"} }

InitJobRate ==
  /\ probe = NoProbe
  /\ \E db \in {x \in Inventories : Len(x.documents) = 0} :
       /\ project = db.project
       /\ documents = db.documents
       /\ project_notes = db.project_notes
       /\ project_sources = db.project_sources
  /\ knox_reports = <<>>
  /\ env \in JobRateEnvConfigs
  /\ response = NoResponse
  /\ ai_jobs = <<>> /\ handlers = <<>>
  /\ rate_limit_state = NoHits /\ now = 0

NextJobRate ==
  \/ \E request \in InternalRequests : compile_fortknox_report_job(request)
  \/ \E request \in InternalRequests : compile_fortknox_report_langchain_job(request)
  \/ \E job_id \in 1..MaxJobs : run_job_http_post(job_id)
  \/ \E job_id \in 1..MaxJobs : run_job_http_post_returns(job_id)
  \/ receive_response
  \/ tick

SpecJobRate == InitJobRate /\ [][NextJobRate]_vars

\* the job's own request was answered 429 by the rate limiter
rejected_by_rate_limit(job) ==
  job.status = "failed" /\ job.error_code = Some(http_error_code[429])

\* C29: the request an accepted job (202) makes to the compile endpoint is
\* never rejected by the rate limiter: no job ends failed with the error
\* code HTTP_429
C29_JobCallNeverRateLimited ==
  \A k \in DOMAIN ai_jobs : ~rejected_by_rate_limit(ai_jobs[k])

\* ---------------------------------------------------------------------------
\* The court RSS watcher, run again and again on one feed
\* ---------------------------------------------------------------------------

MaxEntries == 3
MaxRuns == 3

\* entries of the parsed feed: the id and the link of an item, either of
\* which may be missing
EntryIds == {None, Some(Str("a")), Some(Str("b")), Some(Str("c"))}
EntryLinks == {Str(""), Str("l")}
FeedEntries == [id : EntryIds, link : EntryLinks]
Feeds == UNION {[1..n -> FeedEntries] : n \in 0..MaxEntries}

\* getattr(entry, 'id', None) or getattr(entry, 'guid', None) or entry.get('link', '')
parse_entry(entry) ==
  [guid |-> IF entry.id # None /\ entry.id[1] # <<>> THEN entry.id[1] ELSE entry.link,
   link |-> entry.link]

\* the state file: None when it does not exist, else its text
load_last_guid(state_file) ==
  IF state_file = None THEN None
  ELSE IF LStrip(RStrip(state_file[1])) = <<>> THEN None
  ELSE Some(LStrip(RStrip(state_file[1])))

save_last_guid(guid) == Some(guid)

\* the entries after the first one whose guid is last_guid; every entry
\* when there is no last_guid or no entry has it
get_new_items(entries, last_guid) ==
  IF last_guid = None THEN MapSeq(entries, parse_entry)
  ELSE IF \A k \in DOMAIN entries : parse_entry(entries[k]).guid # last_guid[1]
  THEN MapSeq(entries, parse_entry)
  ELSE LET first == CHOOSE k \in DOMAIN entries :
                      /\ parse_entry(entries[k]).guid = last_guid[1]
                      /\ \A j \in 1..(k - 1) : parse_entry(entries[j]).guid # last_guid[1]
       IN  MapSeq(SubSeq(entries, first + 1, Len(entries)), parse_entry)

\* a run of the watcher: the items it printed as new, its exit status, and
\* the state file before and after it
WatcherRun(new_items, exit, before, after) ==
  [new_items |-> new_items, exit |-> exit, state_before |-> before, state_after |-> after]

\* main() when the feed is fetched: the new items are printed and the guid
\* of the first of them is saved
main ==
  /\ Len(probe.runs) < MaxRuns
  /\ LET new_items == get_new_items(probe.feed, load_last_guid(probe.state_file))
         saved == IF new_items = <<>> THEN probe.state_file
                  ELSE save_last_guid(new_items[1].guid)
     IN  probe' = [probe EXCEPT !.state_file = saved,
                                !.runs = Append(@, WatcherRun(new_items, 0, probe.state_file,
                                                              saved))]
  /\ UNCHANGED <<documents, project_notes, project_sources, project, knox_reports, env,
                 response, ai_jobs, handlers, rate_limit_state, now>>

\* main() when fetch_rss() fails: sys.exit(1) before anything is printed
main_fetch_failed ==
  /\ Len(probe.runs) < MaxRuns
  /\ probe' = [probe EXCEPT !.runs = Append(@, WatcherRun(<<>>, 1, probe.state_file,
                                                          probe.state_file))]
  /\ UNCHANGED <<documents, project_notes, project_sources, project, knox_reports, env,
                 response, ai_jobs, handlers, rate_limit_state, now>>

\* the feed stays as it is; no state file yet
InitWatcher ==
  /\ \E feed \in Feeds : probe = [feed |-> feed, state_file |-> None, runs |-> <<>>]
  /\ documents = <<>> /\ project_notes = <<>> /\ project_sources = <<>>
  /\ project = NoProject /\ knox_reports = <<>> /\ env = NoEnv
  /\ response = NoResponse
  /\ ai_jobs = <<>> /\ handlers = <<>>
  /\ rate_limit_state = NoHits /\ now = 0

NextWatcher ==
  \/ main
  \/ main_fetch_failed

SpecWatcher == InitWatcher /\ [][NextWatcher]_vars

reported_guids(run) == {run.new_items[k].guid : k \in DOMAIN run.new_items}

\* C30: across the runs of the watcher on an unchanged feed, no feed item
\* is reported as new in two different runs (once a run has reported the
\* items and saved its state, the later runs report nothing new), and the
\* saved last guid changes only in a run that reported a new item
C30_ReportedOnce ==
  /\ \A i, j \in DOMAIN probe.runs :
       i < j => reported_guids(probe.runs[i]) \cap reported_guids(probe.runs[j]) = {}
  /\ \A i \in DOMAIN probe.runs :
       probe.runs[i].state_after # probe.runs[i].state_before
         => probe.runs[i].new_items # <<>>

====
